---- MODULE Spec2Model ----
(***************************************************************************)
(* Model of src/src/network_address.cc: the text <-> binary codec of the   *)
(* INET / CIDR / MACADDR types, its comparator and its network arithmetic. *)
(*                                                                         *)
(* Representation                                                          *)
(*   byte      0..255                                                      *)
(*   uint32_t  a sequence of 4 bytes, most significant first (TLC's        *)
(*             integers are 32-bit signed, so 0xFFFFFFFF is not a number   *)
(*             it can hold); all 32-bit operations of the code are defined *)
(*             on this form                                                *)
(*   buffer    a sequence of bytes, C offset i is element i+1 (see At);    *)
(*             the structs are copied with memcpy, so the uint32_t lies in *)
(*             the buffer least significant byte first (little-endian      *)
(*             build) and the IPv4 struct has one byte of padding          *)
(*   text      a sequence of one-character strings, without the NUL        *)
(***************************************************************************)
EXTENDS Integers, Sequences, FiniteSets, TLC

VARIABLES
    lit,      \* the literal handed to the last encode_* call (a description, see LitText)
    enc,      \* the encoder it was handed to
    op,       \* name of the last operation called
    arg,      \* its integer argument (new_masklen), 0 when it has none
    inp,      \* the record (bin_value, bin_len bytes) the last operation was called on
    out,      \* [ret, buffer, length]: return flag, destination buffer, *length after it
    txt,      \* [ret, to, to_length]: result of the last decode_* call
    num,      \* result of the last inet_family / inet_masklen call
    hist,     \* the operations applied since the record was encoded
    ra, rb, rc, \* three records held by the caller of the comparator
    cmp,      \* results of the comparator calls on them
    mfam, mp, mnet, mhost,  \* mask computation: family, prefix, netmask, hostmask
    mval,     \* result of the strict validation at that prefix
    shifts,   \* the shift operations the mask computations have evaluated
    str,      \* the text handed to a parser or to an encoder
    parsed    \* result of the last parse_* call on it

vars == <<lit, enc, op, arg, inp, out, txt, num, hist, ra, rb, rc, cmp, mfam, mp, mnet, mhost,
          mval, shifts, str, parsed>>

(***************************************************************************)
(* Program constants                                                       *)
(***************************************************************************)
ADDR_FLAG_CIDR == 1
ADDR_FLAG_INET == 2
AF_INET_VAL == 2
AF_INET6_VAL == 10
IPV4_MAX_PREFIXLEN == 32
IPV6_MAX_PREFIXLEN == 128
\* sizeof(IPv4Network): uint32_t + 3 * uint8_t, aligned to 4: 7 bytes of fields, 1 of padding
sizeof_IPv4Network == 8
sizeof_IPv6Network == 19
\* char addr_str[64] and the %63 of the scan format
AddrStrSize == 64
kMaxIPv6String == 44

(***************************************************************************)
(* Bounds of the model                                                     *)
(***************************************************************************)
\* number of arithmetic operations applied in a row to an encoded record
MaxOps == 2
\* values read by strtoul / %u / %d saturate here: the code only compares them
\* with 255, 0xFFFF, 32 and 128
NumCap == 70000

\* marks a byte of a destination buffer, or a length, that no call has written
Untouched == 0 - 1

Byte == 0..255

At(buffer, i) == buffer[i + 1]

Min(a, b) == IF a < b THEN a ELSE b

(***************************************************************************)
(* Bit operations on bytes and on uint32_t                                 *)
(***************************************************************************)
RECURSIVE And8(_, _)
And8(a, b) == IF a = 0 \/ b = 0 THEN 0
              ELSE (a % 2) * (b % 2) + 2 * And8(a \div 2, b \div 2)

Not8(a) == 255 - a

Or8(a, b) == a + b - And8(a, b)

\* (uint8_t)(0xFF << k), 0 <= k <= 8
Shl8_FF(k) == (255 * (2 ^ k)) % 256

Zero32 == <<0, 0, 0, 0>>
Ones32 == <<255, 255, 255, 255>>
And32(x, y) == [i \in 1..4 |-> And8(x[i], y[i])]
Or32(x, y) == [i \in 1..4 |-> Or8(x[i], y[i])]
Not32(x) == [i \in 1..4 |-> Not8(x[i])]
\* x - 1 in uint32_t arithmetic (0 wraps to 0xFFFFFFFF)
Dec32(x) ==
    IF x[4] > 0 THEN <<x[1], x[2], x[3], x[4] - 1>>
    ELSE IF x[3] > 0 THEN <<x[1], x[2], x[3] - 1, 255>>
    ELSE IF x[2] > 0 THEN <<x[1], x[2] - 1, 255, 255>>
    ELSE IF x[1] > 0 THEN <<x[1] - 1, 255, 255, 255>>
    ELSE Ones32
Lt32(x, y) ==
    \E i \in 1..4 : x[i] < y[i] /\ \A j \in 1..(i - 1) : x[j] = y[j]

\* The outcomes of 1u << 32, which is undefined: "wrap" is the x86 shift
\* instruction (count taken modulo 32), "zero" the result of constant folding and
\* of instruction sets that shift the bit out.
ShiftOutcomes == {"wrap", "zero"}

\* 1u << k; for k >= 32 the outcome ub
Shl32_1(k, ub) ==
    IF k >= 32 /\ ub = "zero" THEN Zero32
    ELSE LET kk == k % 32
         IN  [i \in 1..4 |-> IF i = 4 - (kk \div 8) THEN 2 ^ (kk % 8) ELSE 0]

(***************************************************************************)
(* Text: characters, the C library's number scanning, printf conversions   *)
(***************************************************************************)
DecDigits == <<"0", "1", "2", "3", "4", "5", "6", "7", "8", "9">>
HexLower == <<"0", "1", "2", "3", "4", "5", "6", "7", "8", "9",
              "a", "b", "c", "d", "e", "f">>
HexUpper == <<"A", "B", "C", "D", "E", "F">>
DecSet == {DecDigits[i] : i \in 1..10}
HexSet == {HexLower[i] : i \in 1..16} \cup {HexUpper[i] : i \in 1..6}
WhiteSpace == {" ", "\t", "\n", "\r", "\f"}

isxdigit(c) == c \in HexSet

\* the value of a digit character (decimal digits are the first ten hex digits)
DigitVal(c) ==
    IF \E i \in 1..16 : HexLower[i] = c
    THEN (CHOOSE i \in 1..16 : HexLower[i] = c) - 1
    ELSE (CHOOSE i \in 1..6 : HexUpper[i] = c) + 9

\* std::tolower on a hexadecimal digit
tolower(c) == IF isxdigit(c) THEN HexLower[DigitVal(c) + 1] ELSE c

IsChar(s, p, c) == p <= Len(s) /\ s[p] = c

\* number of characters from position p on that lie in set S
RECURSIVE Span(_, _, _)
Span(s, p, S) == IF p > Len(s) \/ s[p] \notin S THEN 0 ELSE 1 + Span(s, p + 1, S)

\* number of characters from position p on that are not c
RECURSIVE SpanNot(_, _, _)
SpanNot(s, p, c) == IF p > Len(s) \/ s[p] = c THEN 0 ELSE 1 + SpanNot(s, p + 1, c)

\* value of the n digits from position p in the given base, saturating at NumCap
RECURSIVE Accum(_, _, _, _, _)
Accum(s, p, n, base, acc) ==
    IF n = 0 THEN acc
    ELSE Accum(s, p + 1, n - 1, base, Min(acc * base + DigitVal(s[p]), NumCap))

\* The subject sequence of strtol/strtoul and of scanf's integer conversions:
\* white space, an optional sign, for base 16 an optional 0x, digits.
\* conv: a number was read; end: position after it (p itself when none was).
ScanNumber(s, p, base) ==
    LET q    == p + Span(s, p, WhiteSpace)
        sgn  == q <= Len(s) /\ s[q] \in {"+", "-"}
        neg  == IsChar(s, q, "-")
        q1   == IF sgn THEN q + 1 ELSE q
        digs == IF base = 16 THEN HexSet ELSE DecSet
        pfx  == base = 16 /\ IsChar(s, q1, "0") /\ q1 + 2 <= Len(s)
                /\ s[q1 + 1] \in {"x", "X"} /\ s[q1 + 2] \in HexSet
        q2   == IF pfx THEN q1 + 2 ELSE q1
        n    == Span(s, q2, digs)
    IN  IF n = 0 THEN [conv |-> FALSE, mag |-> 0, neg |-> FALSE, end |-> p]
        ELSE [conv |-> TRUE, mag |-> Accum(s, q2, n, base, 0), neg |-> neg, end |-> q2 + n]

\* the unsigned value of a scanned number: a negated value wraps to a huge one
UnsignedVal(r) == IF r.neg /\ r.mag > 0 THEN NumCap ELSE r.mag
\* the int value of a scanned number
SignedVal(r) == IF r.neg THEN 0 - r.mag ELSE r.mag

\* strtoul(p, &end, 16)
strtoul16(s, p) ==
    LET r == ScanNumber(s, p, 16) IN [val |-> UnsignedVal(r), end |-> r.end]

\* printf %u
RECURSIVE FmtU(_)
FmtU(n) == IF n < 10 THEN <<DecDigits[n + 1]>>
           ELSE Append(FmtU(n \div 10), DecDigits[(n % 10) + 1])

\* printf %02x of a byte
Fmt02x(b) == <<HexLower[(b \div 16) + 1], HexLower[(b % 16) + 1]>>

\* what snprintf leaves in a buffer of the given size: at most size - 1 characters
snprintf(size, text) == SubSeq(text, 1, Min(Len(text), size - 1))

\* first position of "::" in s, 0 when there is none (strstr)
RECURSIVE strstr_cc(_, _)
strstr_cc(s, p) ==
    IF p + 1 > Len(s) THEN 0
    ELSE IF s[p] = ":" /\ s[p + 1] = ":" THEN p
    ELSE strstr_cc(s, p + 1)

(***************************************************************************)
(* Parsing and formatting of addresses                                     *)
(***************************************************************************)
\* sscanf(addr_str, "%u.%u.%u.%u", ...): the values converted before the first
\* mismatch; the call returns their number
RECURSIVE sscanf_u4(_, _, _)
sscanf_u4(s, p, vals) ==
    LET r == ScanNumber(s, p, 10) IN
    IF ~r.conv THEN vals
    ELSE LET v2 == Append(vals, UnsignedVal(r)) IN
         IF Len(v2) = 4 THEN v2
         ELSE IF IsChar(s, r.end, ".") THEN sscanf_u4(s, r.end + 1, v2)
         ELSE v2

parse_ipv4_address(addr_str) ==
    LET v == sscanf_u4(addr_str, 1, <<>>) IN
    IF Len(v) # 4 THEN [ok |-> FALSE, address |-> Zero32]
    ELSE IF v[1] > 255 \/ v[2] > 255 \/ v[3] > 255 \/ v[4] > 255
         THEN [ok |-> FALSE, address |-> Zero32]
    ELSE [ok |-> TRUE, address |-> <<v[1], v[2], v[3], v[4]>>]

format_ipv4_address(address, buffer_size) ==
    snprintf(buffer_size,
             FmtU(address[1]) \o <<".">> \o FmtU(address[2]) \o <<".">>
             \o FmtU(address[3]) \o <<".">> \o FmtU(address[4]))

\* The loop "while (*p && parts < 8) { strtoul ... }" that parse_ipv6_address runs
\* on the left side, the right side and the uncompressed string.
RECURSIVE GroupLoop(_, _, _)
GroupLoop(s, p, parts) ==
    IF p > Len(s) \/ Len(parts) >= 8 THEN [ok |-> TRUE, parts |-> parts]
    ELSE LET r == strtoul16(s, p) IN
         IF r.val > 65535 \/ r.end = p THEN [ok |-> FALSE, parts |-> parts]
         ELSE LET ps == Append(parts, r.val) IN
              IF IsChar(s, r.end, ":") THEN GroupLoop(s, r.end + 1, ps)
              ELSE IF r.end > Len(s) THEN [ok |-> TRUE, parts |-> ps]
              ELSE [ok |-> FALSE, parts |-> ps]

\* a fill that puts the right groups straight after the left ones
FillAddress_right_after_left(left, right) ==
    [i \in 1..16 |->
        LET g  == (i - 1) \div 2
            hi == (i - 1) % 2 = 0
            v  == IF g < Len(left) THEN left[g + 1]
                  ELSE IF g < Len(left) + Len(right) THEN right[g - Len(left) + 1]
                  ELSE 0
        IN  IF hi THEN (v \div 256) % 256 ELSE v % 256]

\* the 16 address bytes holding the groups left at group 0.. and right at 8 - Len(right)..
FillAddress(left, right) ==
    [i \in 1..16 |->
        LET g  == (i - 1) \div 2
            hi == (i - 1) % 2 = 0
            v  == IF g < Len(left) THEN left[g + 1]
                  ELSE IF g >= 8 - Len(right) THEN right[g - (8 - Len(right)) + 1]
                  ELSE 0
        IN  IF hi THEN (v \div 256) % 256 ELSE v % 256]

Zero128 == [i \in 1..16 |-> 0]

parse_ipv6_address(addr_str) ==
    LET dc == strstr_cc(addr_str, 1) IN
    IF dc # 0
    THEN LET l == IF dc # 1 THEN GroupLoop(SubSeq(addr_str, 1, dc - 1), 1, <<>>)
                  ELSE [ok |-> TRUE, parts |-> <<>>]
             r == IF dc + 2 <= Len(addr_str) THEN GroupLoop(addr_str, dc + 2, <<>>)
                  ELSE [ok |-> TRUE, parts |-> <<>>]
         IN  IF ~l.ok \/ ~r.ok THEN [ok |-> FALSE, address |-> Zero128]
             ELSE IF Len(l.parts) + Len(r.parts) > 7 THEN [ok |-> FALSE, address |-> Zero128]
             ELSE [ok |-> TRUE, address |-> FillAddress(l.parts, r.parts)]
    ELSE LET g == GroupLoop(addr_str, 1, <<>>) IN
         IF ~g.ok \/ Len(g.parts) # 8 THEN [ok |-> FALSE, address |-> Zero128]
         ELSE [ok |-> TRUE, address |-> FillAddress(g.parts, <<>>)]

format_ipv6_address(address, buffer_size) ==
    LET grp(g) == Fmt02x(address[2 * g + 1]) \o Fmt02x(address[2 * g + 2]) IN
    snprintf(buffer_size,
             grp(0) \o <<":">> \o grp(1) \o <<":">> \o grp(2) \o <<":">> \o grp(3) \o <<":">>
             \o grp(4) \o <<":">> \o grp(5) \o <<":">> \o grp(6) \o <<":">> \o grp(7))

(***************************************************************************)
(* Record layout                                                           *)
(***************************************************************************)
\* memcpy(dst, src, Len(src)) into the front of dst
Memcpy(dst, src) == [i \in 1..Len(dst) |-> IF i <= Len(src) THEN src[i] ELSE dst[i]]

\* the bytes of a struct IPv4Network; pad is the value of its padding byte, which no
\* statement of the code writes
BytesOfIPv4Network(address, netmask, family, flags, pad) ==
    <<address[4], address[3], address[2], address[1], netmask, family, flags, pad>>

BytesOfIPv6Network(address, netmask, family, flags) ==
    address \o <<netmask, family, flags>>

\* memcpy(&net, buffer, sizeof(IPv4Network))
ReadIPv4Network(buffer) ==
    [address |-> <<At(buffer, 3), At(buffer, 2), At(buffer, 1), At(buffer, 0)>>,
     netmask |-> At(buffer, 4), family |-> At(buffer, 5), flags |-> At(buffer, 6)]

\* memcpy(&net, buffer, sizeof(IPv6Network))
ReadIPv6Network(buffer) ==
    [address |-> SubSeq(buffer, 1, 16),
     netmask |-> At(buffer, 16), family |-> At(buffer, 17), flags |-> At(buffer, 18)]

\* the values the padding byte of a local IPv4Network is given in the model
PadBytes == {0, 170}

(***************************************************************************)
(* Prefix / mask arithmetic                                                *)
(***************************************************************************)
validate_cidr_network(address, netmask) ==
    IF netmask > IPV4_MAX_PREFIXLEN THEN FALSE
    ELSE IF netmask = 0 THEN TRUE
    ELSE LET mask == Not32(Dec32(Shl32_1(IPV4_MAX_PREFIXLEN - netmask, "wrap")))
         IN  And32(address, Not32(mask)) = Zero32

validate_cidr_network_ipv6(address, netmask) ==
    IF netmask > IPV6_MAX_PREFIXLEN THEN FALSE
    ELSE IF netmask = 0 THEN TRUE
    ELSE LET full_bytes     == netmask \div 8
             remaining_bits == netmask % 8
             mask           == Shl8_FF(8 - remaining_bits)
             partial_bad    == remaining_bits > 0
                               /\ And8(At(address, full_bytes), Not8(mask)) # 0
             first          == IF remaining_bits > 0 THEN full_bytes + 1 ELSE full_bytes
         IN  ~partial_bad /\ \A i \in first..15 : At(address, i) = 0

prefix_to_netmask_ipv4(prefix_len) ==
    IF prefix_len = 0 THEN Zero32
    ELSE IF prefix_len >= 32 THEN Ones32
    ELSE Not32(Dec32(Shl32_1(32 - prefix_len, "wrap")))

\* ub: the outcome of the shift by 32 that prefix_len = 0 asks for
prefix_to_hostmask_ipv4(prefix_len, ub) ==
    IF prefix_len >= 32 THEN Zero32
    ELSE Dec32(Shl32_1(32 - prefix_len, ub))

prefix_to_netmask_ipv6(prefix_len) ==
    LET full_bytes     == prefix_len \div 8
        remaining_bits == prefix_len % 8
    IN  [i \in 1..16 |->
            IF i - 1 < full_bytes THEN 255
            ELSE IF i - 1 = full_bytes /\ remaining_bits > 0
                 THEN Shl8_FF(8 - remaining_bits)
            ELSE 0]

prefix_to_hostmask_ipv6(prefix_len) ==
    LET full_bytes     == prefix_len \div 8
        remaining_bits == prefix_len % 8
        partial        == full_bytes < 16 /\ remaining_bits > 0
        first          == IF partial THEN full_bytes + 1 ELSE full_bytes
    IN  [i \in 1..16 |->
            IF partial /\ i - 1 = full_bytes THEN Not8(Shl8_FF(8 - remaining_bits))
            ELSE IF i - 1 >= first THEN 255
            ELSE 0]

(***************************************************************************)
(* Encoding and decoding                                                   *)
(***************************************************************************)
\* return MarkInvalid(length): *length = 0, failure
MarkInvalid(buffer) == [ret |-> TRUE, buffer |-> buffer, length |-> 0]

\* return true, leaving *length alone
Refuse(buffer, length) == [ret |-> TRUE, buffer |-> buffer, length |-> length]

\* memcpy(buffer, &net, sizeof net); *length = sizeof net; return false
Store(buffer, bytes) ==
    [ret |-> FALSE, buffer |-> Memcpy(buffer, bytes), length |-> Len(bytes)]

\* sscanf(from, "%63[^/]/%d", addr_str, &netmask): n is the call's result
sscanf_addr_netmask(from) ==
    LET k == Min(SpanNot(from, 1, "/"), AddrStrSize - 1)
        r == ScanNumber(from, k + 2, 10)
    IN  IF k = 0 THEN [n |-> 0, addr_str |-> <<>>, netmask |-> 0]
        ELSE IF ~IsChar(from, k + 1, "/") \/ ~r.conv
             THEN [n |-> 1, addr_str |-> SubSeq(from, 1, k), netmask |-> 0]
        ELSE [n |-> 2, addr_str |-> SubSeq(from, 1, k), netmask |-> SignedVal(r)]

encode_cidr(buffer, buffer_size, from, length, pad) ==
    IF buffer_size < sizeof_IPv4Network THEN Refuse(buffer, length)
    ELSE LET sc == sscanf_addr_netmask(from) IN
    IF sc.n # 2 THEN MarkInvalid(buffer)
    ELSE LET p4 == parse_ipv4_address(sc.addr_str)
             p6 == parse_ipv6_address(sc.addr_str)
             netmask == sc.netmask
         IN
    IF p4.ok
    THEN IF netmask < 0 \/ netmask > IPV4_MAX_PREFIXLEN THEN MarkInvalid(buffer)
         ELSE IF ~validate_cidr_network(p4.address, netmask) THEN MarkInvalid(buffer)
         ELSE Store(buffer, BytesOfIPv4Network(p4.address, netmask, AF_INET_VAL,
                                               ADDR_FLAG_CIDR, pad))
    ELSE IF buffer_size < sizeof_IPv6Network THEN Refuse(buffer, length)
    ELSE IF p6.ok
    THEN IF netmask < 0 \/ netmask > IPV6_MAX_PREFIXLEN THEN MarkInvalid(buffer)
         ELSE IF ~validate_cidr_network_ipv6(p6.address, netmask) THEN MarkInvalid(buffer)
         ELSE Store(buffer, BytesOfIPv6Network(p6.address, netmask, AF_INET6_VAL,
                                               ADDR_FLAG_CIDR))
    ELSE MarkInvalid(buffer)

encode_inet(buffer, buffer_size, from, length, pad) ==
    IF buffer_size < sizeof_IPv4Network THEN Refuse(buffer, length)
    ELSE LET sc       == sscanf_addr_netmask(from)
             addr_str == IF sc.n = 2 THEN sc.addr_str
                         ELSE SubSeq(from, 1, Min(Len(from), AddrStrSize - 1))
             scanned  == IF sc.n = 2 THEN sc.netmask ELSE 0 - 1
             p4       == parse_ipv4_address(addr_str)
             p6       == parse_ipv6_address(addr_str)
             netmask4 == IF scanned = 0 - 1 THEN IPV4_MAX_PREFIXLEN ELSE scanned
             netmask6 == IF scanned = 0 - 1 THEN IPV6_MAX_PREFIXLEN ELSE scanned
         IN
    IF p4.ok
    THEN IF netmask4 < 0 \/ netmask4 > IPV4_MAX_PREFIXLEN THEN MarkInvalid(buffer)
         ELSE Store(buffer, BytesOfIPv4Network(p4.address, netmask4, AF_INET_VAL,
                                               ADDR_FLAG_INET, pad))
    ELSE IF buffer_size < sizeof_IPv6Network THEN Refuse(buffer, length)
    ELSE IF p6.ok
    THEN IF netmask6 < 0 \/ netmask6 > IPV6_MAX_PREFIXLEN THEN MarkInvalid(buffer)
         ELSE Store(buffer, BytesOfIPv6Network(p6.address, netmask6, AF_INET6_VAL,
                                               ADDR_FLAG_INET))
    ELSE MarkInvalid(buffer)

\* return true from a decode or format function: to and *to_length are left alone
NoText(to, to_length) == [ret |-> TRUE, to |-> to, to_length |-> to_length]

\* len = strlen(result); if (len + 1 > to_size) return true; strcpy; *to_length = len
CopyOut(result, to, to_size, to_length) ==
    IF Len(result) + 1 > to_size THEN NoText(to, to_length)
    ELSE [ret |-> FALSE, to |-> result, to_length |-> Len(result)]

decode_cidr(buffer, buffer_size, to, to_size, to_length) ==
    IF buffer_size < sizeof_IPv4Network THEN NoText(to, to_length)
    ELSE IF At(buffer, 5) = AF_INET_VAL /\ buffer_size >= sizeof_IPv4Network
    THEN LET net      == ReadIPv4Network(buffer)
             addr_str == format_ipv4_address(net.address, 32)
             result   == snprintf(64, addr_str \o <<"/">> \o FmtU(net.netmask))
         IN  CopyOut(result, to, to_size, to_length)
    ELSE IF buffer_size >= sizeof_IPv6Network /\ At(buffer, 17) = AF_INET6_VAL
    THEN LET net      == ReadIPv6Network(buffer)
             addr_str == format_ipv6_address(net.address, kMaxIPv6String)
             result   == snprintf(kMaxIPv6String, addr_str \o <<"/">> \o FmtU(net.netmask))
         IN  CopyOut(result, to, to_size, to_length)
    ELSE NoText(to, to_length)

decode_inet(buffer, buffer_size, to, to_size, to_length) ==
    IF buffer_size < sizeof_IPv4Network THEN NoText(to, to_length)
    ELSE IF At(buffer, 5) = AF_INET_VAL /\ buffer_size >= sizeof_IPv4Network
    THEN LET net      == ReadIPv4Network(buffer)
             addr_str == format_ipv4_address(net.address, 32)
             result   == IF net.netmask = IPV4_MAX_PREFIXLEN THEN snprintf(64, addr_str)
                         ELSE snprintf(64, addr_str \o <<"/">> \o FmtU(net.netmask))
         IN  CopyOut(result, to, to_size, to_length)
    ELSE IF buffer_size >= sizeof_IPv6Network /\ At(buffer, 17) = AF_INET6_VAL
    THEN LET net      == ReadIPv6Network(buffer)
             addr_str == format_ipv6_address(net.address, kMaxIPv6String)
             result   == IF net.netmask = IPV6_MAX_PREFIXLEN
                         THEN snprintf(kMaxIPv6String, addr_str)
                         ELSE snprintf(kMaxIPv6String,
                                       addr_str \o <<"/">> \o FmtU(net.netmask))
         IN  CopyOut(result, to, to_size, to_length)
    ELSE NoText(to, to_length)

(***************************************************************************)
(* Comparison                                                              *)
(***************************************************************************)
\* the sign of memcmp(a, b, n)
RECURSIVE memcmp(_, _, _, _)
memcmp(a, b, i, n) ==
    IF i > n THEN 0
    ELSE IF a[i] < b[i] THEN 0 - 1
    ELSE IF a[i] > b[i] THEN 1
    ELSE memcmp(a, b, i + 1, n)

\* a comparator that lets the longer record sort first
cmp_lengths_longer_first(len1, len2) == IF len1 > len2 THEN 0 - 1 ELSE 1

\* a comparator that compares the uint32_t in memory order (a memcmp of the field)
cmp_address4_memory_order(a1, a2) ==
    memcmp(<<a1[4], a1[3], a1[2], a1[1]>>, <<a2[4], a2[3], a2[2], a2[1]>>, 1, 4)

\* the branch of cmp_cidr for records of different length
cmp_lengths(len1, len2) == IF len1 < len2 THEN 0 - 1 ELSE 1

\* the address comparison of the IPv4 branch of cmp_cidr: two uint32_t
cmp_address4(a1, a2) == IF a1 = a2 THEN 0 ELSE IF Lt32(a1, a2) THEN 0 - 1 ELSE 1

\* the netmask comparison that breaks ties
cmp_netmask(n1, n2) == IF n1 = n2 THEN 0 ELSE IF n1 < n2 THEN 0 - 1 ELSE 1

cmp_cidr(data1, len1, data2, len2) ==
    IF len1 # len2 THEN cmp_lengths(len1, len2)
    ELSE IF len1 = sizeof_IPv4Network
    THEN LET net1 == ReadIPv4Network(data1)
             net2 == ReadIPv4Network(data2)
         IN  IF net1.address # net2.address THEN cmp_address4(net1.address, net2.address)
             ELSE cmp_netmask(net1.netmask, net2.netmask)
    ELSE IF len1 = sizeof_IPv6Network
    THEN LET net1 == ReadIPv6Network(data1)
             net2 == ReadIPv6Network(data2)
             addr_cmp == memcmp(net1.address, net2.address, 1, 16)
         IN  IF addr_cmp # 0 THEN addr_cmp
             ELSE cmp_netmask(net1.netmask, net2.netmask)
    ELSE memcmp(data1, data2, 1, len1)

cmp_inet(data1, len1, data2, len2) == cmp_cidr(data1, len1, data2, len2)

(***************************************************************************)
(* Extractors and network arithmetic                                       *)
(***************************************************************************)
get_address_family(buffer, buffer_size) ==
    IF buffer_size < sizeof_IPv4Network THEN 0
    ELSE IF At(buffer, 5) = AF_INET_VAL THEN AF_INET_VAL
    ELSE IF buffer_size >= sizeof_IPv6Network /\ At(buffer, 17) = AF_INET6_VAL
         THEN AF_INET6_VAL
    ELSE 0

inet_family(buffer, buffer_size) ==
    LET family == get_address_family(buffer, buffer_size) IN
    IF family = AF_INET_VAL THEN 4
    ELSE IF family = AF_INET6_VAL THEN 6
    ELSE 0 - 1

inet_masklen(buffer, buffer_size) ==
    LET family == get_address_family(buffer, buffer_size) IN
    IF buffer_size < sizeof_IPv4Network THEN 0 - 1
    ELSE IF family = AF_INET_VAL THEN At(buffer, 4)
    ELSE IF family = AF_INET6_VAL THEN At(buffer, 16)
    ELSE 0 - 1

\* The functions below share one frame: refuse an undersized record, branch on
\* get_address_family, build the result struct, copy it out. result_buffer and
\* result_length are the caller's buffer and length before the call.
inet_netmask(buffer, buffer_size, result_buffer, result_length, pad) ==
    LET family == get_address_family(buffer, buffer_size) IN
    IF buffer_size < sizeof_IPv4Network THEN Refuse(result_buffer, result_length)
    ELSE IF family = AF_INET_VAL /\ buffer_size >= sizeof_IPv4Network
    THEN LET net == ReadIPv4Network(buffer)
             netmask_addr == prefix_to_netmask_ipv4(net.netmask)
         IN  Store(result_buffer,
                   BytesOfIPv4Network(netmask_addr, 32, AF_INET_VAL, ADDR_FLAG_INET, pad))
    ELSE IF family = AF_INET6_VAL /\ buffer_size >= sizeof_IPv6Network
    THEN LET net == ReadIPv6Network(buffer)
         IN  Store(result_buffer,
                   BytesOfIPv6Network(prefix_to_netmask_ipv6(net.netmask), 128,
                                      AF_INET6_VAL, ADDR_FLAG_INET))
    ELSE Refuse(result_buffer, result_length)

inet_hostmask(buffer, buffer_size, result_buffer, result_length, pad, ub) ==
    LET family == get_address_family(buffer, buffer_size) IN
    IF buffer_size < sizeof_IPv4Network THEN Refuse(result_buffer, result_length)
    ELSE IF family = AF_INET_VAL /\ buffer_size >= sizeof_IPv4Network
    THEN LET net == ReadIPv4Network(buffer)
             hostmask_addr == prefix_to_hostmask_ipv4(net.netmask, ub)
         IN  Store(result_buffer,
                   BytesOfIPv4Network(hostmask_addr, 32, AF_INET_VAL, ADDR_FLAG_INET, pad))
    ELSE IF family = AF_INET6_VAL /\ buffer_size >= sizeof_IPv6Network
    THEN LET net == ReadIPv6Network(buffer)
         IN  Store(result_buffer,
                   BytesOfIPv6Network(prefix_to_hostmask_ipv6(net.netmask), 128,
                                      AF_INET6_VAL, ADDR_FLAG_INET))
    ELSE Refuse(result_buffer, result_length)

inet_broadcast(buffer, buffer_size, result_buffer, result_length, pad, ub) ==
    LET family == get_address_family(buffer, buffer_size) IN
    IF buffer_size < sizeof_IPv4Network THEN Refuse(result_buffer, result_length)
    ELSE IF family = AF_INET_VAL /\ buffer_size >= sizeof_IPv4Network
    THEN LET net == ReadIPv4Network(buffer)
             hostmask == prefix_to_hostmask_ipv4(net.netmask, ub)
             broadcast_addr == Or32(net.address, hostmask)
         IN  Store(result_buffer,
                   BytesOfIPv4Network(broadcast_addr, net.netmask, AF_INET_VAL,
                                      ADDR_FLAG_INET, pad))
    ELSE IF family = AF_INET6_VAL /\ buffer_size >= sizeof_IPv6Network
    THEN LET net == ReadIPv6Network(buffer)
             hostmask == prefix_to_hostmask_ipv6(net.netmask)
             address == [i \in 1..16 |-> Or8(net.address[i], hostmask[i])]
         IN  Store(result_buffer,
                   BytesOfIPv6Network(address, net.netmask, AF_INET6_VAL, ADDR_FLAG_INET))
    ELSE Refuse(result_buffer, result_length)

inet_network(buffer, buffer_size, result_buffer, result_length, pad) ==
    LET family == get_address_family(buffer, buffer_size) IN
    IF buffer_size < sizeof_IPv4Network THEN Refuse(result_buffer, result_length)
    ELSE IF family = AF_INET_VAL /\ buffer_size >= sizeof_IPv4Network
    THEN LET net == ReadIPv4Network(buffer)
             netmask == prefix_to_netmask_ipv4(net.netmask)
             network_addr == And32(net.address, netmask)
         IN  Store(result_buffer,
                   BytesOfIPv4Network(network_addr, net.netmask, AF_INET_VAL,
                                      ADDR_FLAG_CIDR, pad))
    ELSE IF family = AF_INET6_VAL /\ buffer_size >= sizeof_IPv6Network
    THEN LET net == ReadIPv6Network(buffer)
             netmask == prefix_to_netmask_ipv6(net.netmask)
             address == [i \in 1..16 |-> And8(net.address[i], netmask[i])]
         IN  Store(result_buffer,
                   BytesOfIPv6Network(address, net.netmask, AF_INET6_VAL, ADDR_FLAG_CIDR))
    ELSE Refuse(result_buffer, result_length)

inet_set_masklen(buffer, buffer_size, new_masklen, result_buffer, result_length, pad) ==
    LET family == get_address_family(buffer, buffer_size) IN
    IF buffer_size < sizeof_IPv4Network THEN Refuse(result_buffer, result_length)
    ELSE IF family = AF_INET_VAL /\ buffer_size >= sizeof_IPv4Network
    THEN IF new_masklen < 0 \/ new_masklen > 32 THEN Refuse(result_buffer, result_length)
         ELSE LET net == ReadIPv4Network(buffer)
              IN  Store(result_buffer,
                        BytesOfIPv4Network(net.address, new_masklen, AF_INET_VAL,
                                           ADDR_FLAG_INET, pad))
    ELSE IF family = AF_INET6_VAL /\ buffer_size >= sizeof_IPv6Network
    THEN IF new_masklen < 0 \/ new_masklen > 128 THEN Refuse(result_buffer, result_length)
         ELSE LET net == ReadIPv6Network(buffer)
              IN  Store(result_buffer,
                        BytesOfIPv6Network(net.address, new_masklen, AF_INET6_VAL,
                                           ADDR_FLAG_INET))
    ELSE Refuse(result_buffer, result_length)

cidr_set_masklen(buffer, buffer_size, new_masklen, result_buffer, result_length, pad) ==
    LET family == get_address_family(buffer, buffer_size) IN
    IF buffer_size < sizeof_IPv4Network THEN Refuse(result_buffer, result_length)
    ELSE IF family = AF_INET_VAL /\ buffer_size >= sizeof_IPv4Network
    THEN IF new_masklen < 0 \/ new_masklen > 32 THEN Refuse(result_buffer, result_length)
         ELSE LET net == ReadIPv4Network(buffer)
                  netmask == prefix_to_netmask_ipv4(new_masklen)
                  network_addr == And32(net.address, netmask)
              IN  Store(result_buffer,
                        BytesOfIPv4Network(network_addr, new_masklen, AF_INET_VAL,
                                           ADDR_FLAG_CIDR, pad))
    ELSE IF family = AF_INET6_VAL /\ buffer_size >= sizeof_IPv6Network
    THEN IF new_masklen < 0 \/ new_masklen > 128 THEN Refuse(result_buffer, result_length)
         ELSE LET net == ReadIPv6Network(buffer)
                  netmask == prefix_to_netmask_ipv6(new_masklen)
                  address == [i \in 1..16 |-> And8(net.address[i], netmask[i])]
              IN  Store(result_buffer,
                        BytesOfIPv6Network(address, new_masklen, AF_INET6_VAL,
                                           ADDR_FLAG_CIDR))
    ELSE Refuse(result_buffer, result_length)

(***************************************************************************)
(* Text extractors and abbreviation                                        *)
(***************************************************************************)
\* size of the local buffers the IPv4 branches format into
kMaxIPv4String == 18

inet_host(buffer, buffer_size, result, result_size, result_length) ==
    LET family == get_address_family(buffer, buffer_size) IN
    IF buffer_size < sizeof_IPv4Network THEN NoText(result, result_length)
    ELSE IF family = AF_INET_VAL
    THEN LET net      == ReadIPv4Network(buffer)
             addr_str == format_ipv4_address(net.address, kMaxIPv4String)
         IN  CopyOut(addr_str, result, result_size, result_length)
    ELSE IF family = AF_INET6_VAL /\ buffer_size >= sizeof_IPv6Network
    THEN LET net      == ReadIPv6Network(buffer)
             addr_str == format_ipv6_address(net.address, kMaxIPv6String)
         IN  CopyOut(addr_str, result, result_size, result_length)
    ELSE NoText(result, result_length)

inet_text(buffer, buffer_size, result, result_size, result_length) ==
    LET family == get_address_family(buffer, buffer_size) IN
    IF buffer_size < sizeof_IPv4Network THEN NoText(result, result_length)
    ELSE IF family = AF_INET_VAL
    THEN LET net        == ReadIPv4Network(buffer)
             addr_str   == format_ipv4_address(net.address, kMaxIPv4String)
             result_str == snprintf(kMaxIPv4String,
                                    addr_str \o <<"/">> \o FmtU(net.netmask))
         IN  CopyOut(result_str, result, result_size, result_length)
    ELSE IF family = AF_INET6_VAL /\ buffer_size >= sizeof_IPv6Network
    THEN LET net        == ReadIPv6Network(buffer)
             addr_str   == format_ipv6_address(net.address, kMaxIPv6String)
             result_str == snprintf(kMaxIPv6String,
                                    addr_str \o <<"/">> \o FmtU(net.netmask))
         IN  CopyOut(result_str, result, result_size, result_length)
    ELSE NoText(result, result_length)

inet_abbrev(buffer, buffer_size, result, result_size, result_length) ==
    LET family == get_address_family(buffer, buffer_size) IN
    IF buffer_size < sizeof_IPv4Network THEN NoText(result, result_length)
    ELSE IF family = AF_INET_VAL /\ buffer_size >= sizeof_IPv4Network
    THEN LET net        == ReadIPv4Network(buffer)
             addr_str   == format_ipv4_address(net.address, kMaxIPv4String)
             result_str == snprintf(kMaxIPv4String,
                                    addr_str \o <<"/">> \o FmtU(net.netmask))
         IN  IF net.netmask = 32
             THEN CopyOut(addr_str, result, result_size, result_length)
             ELSE CopyOut(result_str, result, result_size, result_length)
    ELSE IF family = AF_INET6_VAL /\ buffer_size >= sizeof_IPv6Network
    THEN LET net        == ReadIPv6Network(buffer)
             addr_str   == format_ipv6_address(net.address, kMaxIPv6String)
             result_str == snprintf(kMaxIPv6String,
                                    addr_str \o <<"/">> \o FmtU(net.netmask))
         IN  IF net.netmask = 128
             THEN CopyOut(addr_str, result, result_size, result_length)
             ELSE CopyOut(result_str, result, result_size, result_length)
    ELSE NoText(result, result_length)

cidr_abbrev(buffer, buffer_size, result, result_size, result_length) ==
    LET family == get_address_family(buffer, buffer_size) IN
    IF buffer_size < sizeof_IPv4Network THEN NoText(result, result_length)
    ELSE IF family = AF_INET_VAL /\ buffer_size >= sizeof_IPv4Network
    THEN LET net        == ReadIPv4Network(buffer)
             rounded    == (net.netmask + 7) \div 8
             significant_octets == IF rounded = 0 THEN 1 ELSE rounded
             octets     == net.address
             shown      == IF significant_octets = 1 THEN FmtU(octets[1])
                           ELSE IF significant_octets = 2
                           THEN FmtU(octets[1]) \o <<".">> \o FmtU(octets[2])
                           ELSE IF significant_octets = 3
                           THEN FmtU(octets[1]) \o <<".">> \o FmtU(octets[2])
                                \o <<".">> \o FmtU(octets[3])
                           ELSE FmtU(octets[1]) \o <<".">> \o FmtU(octets[2])
                                \o <<".">> \o FmtU(octets[3]) \o <<".">>
                                \o FmtU(octets[4])
             addr_str   == snprintf(kMaxIPv4String, shown)
             result_str == snprintf(kMaxIPv4String,
                                    addr_str \o <<"/">> \o FmtU(net.netmask))
         IN  CopyOut(result_str, result, result_size, result_length)
    ELSE IF family = AF_INET6_VAL /\ buffer_size >= sizeof_IPv6Network
    THEN LET net        == ReadIPv6Network(buffer)
             addr_str   == format_ipv6_address(net.address, kMaxIPv6String)
             result_str == snprintf(kMaxIPv6String,
                                    addr_str \o <<"/">> \o FmtU(net.netmask))
         IN  CopyOut(result_str, result, result_size, result_length)
    ELSE NoText(result, result_length)

(***************************************************************************)
(* Hardware addresses                                                      *)
(***************************************************************************)
sizeof_MacAddr == 6
sizeof_MacAddr8 == 8
kMaxMacAddrString == 17
kMaxMacAddr8String == 23

MacSeparators == {":", "-", "."}

\* the first loop of parse_mac_address: the hexadecimal digits of mac_str in
\* lower case, separators dropped; ok is false at any other character
\* a cleaning loop that takes ":" and "-" as separators, but not "."
RECURSIVE CleanMac_colon_hyphen_only(_, _, _)
CleanMac_colon_hyphen_only(mac_str, cursor, cleaned) ==
    IF cursor > Len(mac_str) THEN [ok |-> TRUE, cleaned |-> cleaned]
    ELSE IF isxdigit(mac_str[cursor])
    THEN CleanMac_colon_hyphen_only(mac_str, cursor + 1,
                                    Append(cleaned, tolower(mac_str[cursor])))
    ELSE IF mac_str[cursor] \in {":", "-"}
    THEN CleanMac_colon_hyphen_only(mac_str, cursor + 1, cleaned)
    ELSE [ok |-> FALSE, cleaned |-> cleaned]

RECURSIVE CleanMac(_, _, _)
CleanMac(mac_str, cursor, cleaned) ==
    IF cursor > Len(mac_str) THEN [ok |-> TRUE, cleaned |-> cleaned]
    ELSE IF isxdigit(mac_str[cursor])
    THEN CleanMac(mac_str, cursor + 1, Append(cleaned, tolower(mac_str[cursor])))
    ELSE IF mac_str[cursor] \in MacSeparators THEN CleanMac(mac_str, cursor + 1, cleaned)
    ELSE [ok |-> FALSE, cleaned |-> cleaned]

parse_mac_address(mac_str, expected_bytes) ==
    LET c == CleanMac(mac_str, 1, <<>>) IN
    IF ~c.ok \/ Len(c.cleaned) # expected_bytes * 2
    THEN [ok |-> FALSE, address |-> <<>>]
    ELSE [ok |-> TRUE,
          address |-> [i \in 1..expected_bytes |->
                          16 * DigitVal(c.cleaned[2 * i - 1]) + DigitVal(c.cleaned[2 * i])]]

RECURSIVE JoinBytes(_)
JoinBytes(address) ==
    IF Len(address) = 1 THEN Fmt02x(address[1])
    ELSE Fmt02x(address[1]) \o <<":">> \o JoinBytes(Tail(address))

format_mac_address(address, buffer_size, bytes) ==
    snprintf(buffer_size, JoinBytes(SubSeq(address, 1, bytes)))

encode_macaddr(buffer, buffer_size, from, length) ==
    IF buffer_size < sizeof_MacAddr THEN Refuse(buffer, length)
    ELSE LET mac == parse_mac_address(from, 6) IN
         IF ~mac.ok THEN MarkInvalid(buffer)
         ELSE Store(buffer, mac.address)

decode_macaddr(buffer, buffer_size, to, to_size, to_length) ==
    IF buffer_size < sizeof_MacAddr THEN NoText(to, to_length)
    ELSE LET mac    == SubSeq(buffer, 1, sizeof_MacAddr)
             result == format_mac_address(mac, kMaxMacAddrString + 1, 6)
         IN  CopyOut(result, to, to_size, to_length)

encode_macaddr8(buffer, buffer_size, from, length) ==
    IF buffer_size < sizeof_MacAddr8 THEN Refuse(buffer, length)
    ELSE LET mac8 == parse_mac_address(from, 8) IN
         IF ~mac8.ok THEN MarkInvalid(buffer)
         ELSE Store(buffer, mac8.address)

decode_macaddr8(buffer, buffer_size, to, to_size, to_length) ==
    IF buffer_size < sizeof_MacAddr8 THEN NoText(to, to_length)
    ELSE LET mac8   == SubSeq(buffer, 1, sizeof_MacAddr8)
             result == format_mac_address(mac8, kMaxMacAddr8String + 1, 8)
         IN  CopyOut(result, to, to_size, to_length)

\* a truncation that clears the last two bytes only
macaddr_trunc_two_bytes(buffer, buffer_size, result_buffer, result_length) ==
    IF buffer_size < sizeof_MacAddr THEN Refuse(result_buffer, result_length)
    ELSE LET mac == SubSeq(buffer, 1, sizeof_MacAddr)
         IN  Store(result_buffer, <<mac[1], mac[2], mac[3], mac[4], 0, 0>>)

macaddr_trunc(buffer, buffer_size, result_buffer, result_length) ==
    IF buffer_size < sizeof_MacAddr THEN Refuse(result_buffer, result_length)
    ELSE LET mac == SubSeq(buffer, 1, sizeof_MacAddr)
         IN  Store(result_buffer, <<mac[1], mac[2], mac[3], 0, 0, 0>>)

(***************************************************************************)
(* Inputs: the literals the caller encodes                                 *)
(*                                                                         *)
(* A literal is described by its family, its address (IPv4: four octets;   *)
(* IPv6: the groups left and right of an optional "::") and an optional    *)
(* prefix length; LitText writes it the way README.md's "Supported         *)
(* Formats" shows, LitAddress and LitPrefix say what it denotes.           *)
(***************************************************************************)
V4(a, b, c, d) == [fam |-> 4, addr |-> <<a, b, c, d>>, has |-> FALSE, pfx |-> 32]
V6(left, dc, right) ==
    [fam |-> 6, left |-> left, dc |-> dc, right |-> right, has |-> FALSE, pfx |-> 128]
\* the literal l followed by "/n"
Slash(l, n) == [l EXCEPT !.has = TRUE, !.pfx = n]

Lits ==
    { Slash(V4(192, 168, 1, 5), 24),  V4(192, 168, 1, 5),
      Slash(V4(192, 168, 1, 0), 24),  Slash(V4(10, 0, 0, 1), 0),
      Slash(V4(10, 0, 0, 0), 8),      Slash(V4(255, 255, 255, 255), 32),
      Slash(V4(192, 168, 1, 5), 33),
      Slash(V6(<<8193, 3512>>, TRUE, <<1>>), 64),   \* 2001:db8::1/64
      V6(<<8193, 3512>>, TRUE, <<1>>),              \* 2001:db8::1
      Slash(V6(<<8193, 3512>>, TRUE, <<>>), 32),    \* 2001:db8::/32
      Slash(V6(<<8193, 3512, 2>>, TRUE, <<>>), 48), \* 2001:db8:2::/48
      V6(<<8193, 3512, 2>>, TRUE, <<1>>),           \* 2001:db8:2::1
      Slash(V6(<<8193, 3512, 16386>>, TRUE, <<1>>), 64),  \* 2001:db8:4002::1/64
      Slash(V6(<<>>, TRUE, <<>>), 0),               \* ::/0
      Slash(V6(<<65152>>, TRUE, <<1>>), 0),         \* fe80::1/0
      Slash(V6(<<1, 2, 3, 4, 5, 6, 7, 8>>, FALSE, <<>>), 128),
      Slash(V6(<<8193, 3512>>, TRUE, <<1>>), 129) }

\* printf %x
RECURSIVE FmtX(_)
FmtX(n) == IF n < 16 THEN <<HexLower[n + 1]>>
           ELSE Append(FmtX(n \div 16), HexLower[(n % 16) + 1])

\* a decimal integer, with its sign
FmtD(n) == IF n < 0 THEN <<"-">> \o FmtU(0 - n) ELSE FmtU(n)

RECURSIVE JoinGroups(_)
JoinGroups(gs) ==
    IF gs = <<>> THEN <<>>
    ELSE IF Len(gs) = 1 THEN FmtX(gs[1])
    ELSE FmtX(gs[1]) \o <<":">> \o JoinGroups(Tail(gs))

LitText(l) ==
    LET a == IF l.fam = 4
             THEN FmtU(l.addr[1]) \o <<".">> \o FmtU(l.addr[2]) \o <<".">>
                  \o FmtU(l.addr[3]) \o <<".">> \o FmtU(l.addr[4])
             ELSE JoinGroups(l.left) \o (IF l.dc THEN <<":", ":">> ELSE <<>>)
                  \o JoinGroups(l.right)
    IN  IF l.has THEN a \o <<"/">> \o FmtD(l.pfx) ELSE a

\* the address a literal denotes: 4 octets, or 16 bytes
LitAddress(l) ==
    IF l.fam = 4 THEN l.addr
    ELSE LET groups == [g \in 1..8 |->
                           IF g <= Len(l.left) THEN l.left[g]
                           ELSE IF g > 8 - Len(l.right) THEN l.right[g - (8 - Len(l.right))]
                           ELSE 0]
         IN  [i \in 1..16 |-> IF i % 2 = 1 THEN groups[(i + 1) \div 2] \div 256
                              ELSE groups[i \div 2] % 256]

LitWidth(l) == IF l.fam = 4 THEN IPV4_MAX_PREFIXLEN ELSE IPV6_MAX_PREFIXLEN

\* the literal is a valid one: its prefix length lies in the range of its family
LitValid(l) == 0 <= l.pfx /\ l.pfx <= LitWidth(l)

(***************************************************************************)
(* The caller: values passed through the extension's functions             *)
(***************************************************************************)
\* size of the caller's record buffers (persisted_length of CIDR and INET)
RecordBufferSize == 19
\* buffer_size arguments handed to the encoders
BufferSizes == {7, 8, 19}
\* size of the caller's text buffer (max_decode_buffer_length, buffer_size(64))
TextBufferSize == 64
\* new_masklen arguments
Masklens == {0 - 1, 0, 16, 32, 33, 128, 129}

FreshBuffer == [i \in 1..RecordBufferSize |-> Untouched]
UntouchedText == <<"<untouched>">>
NoOut == [ret |-> TRUE, buffer |-> FreshBuffer, length |-> Untouched]
NoTxt == [ret |-> TRUE, to |-> UntouchedText, to_length |-> Untouched]
NoLit == [fam |-> 0]
NoRec == [rec |-> <<>>, lit |-> NoLit]

\* the record the last successful call produced: bin_value with bin_len = Len
Cur == SubSeq(out.buffer, 1, out.length)
HasRecord == op # "init" /\ ~out.ret

mainvars == <<lit, enc, op, arg, inp, out, txt, num, hist>>
cmpvars == <<ra, rb, rc, cmp>>
maskvars == <<mfam, mp, mnet, mhost, mval, shifts>>
parsevars == <<str, parsed>>

MainInit ==
    /\ lit = NoLit /\ enc = "none" /\ op = "init" /\ arg = 0 /\ inp = <<>>
    /\ out = NoOut /\ txt = NoTxt /\ num = Untouched /\ hist = <<>>
CmpInit == ra = NoRec /\ rb = NoRec /\ rc = NoRec /\ cmp = <<>>
MaskInit == mfam = 0 /\ mp = 0 /\ mnet = <<>> /\ mhost = <<>> /\ mval = <<>> /\ shifts = {}
NoParse == [f |-> "none"]
ParseInit == str = <<>> /\ parsed = NoParse

Init == MainInit /\ CmpInit /\ MaskInit /\ ParseInit

\* an encoder called on a literal's text
Encoded(name, l, result) ==
    /\ op = "init"
    /\ lit' = l /\ enc' = name /\ op' = name /\ arg' = 0 /\ inp' = <<>>
    /\ out' = result /\ txt' = NoTxt /\ num' = Untouched /\ hist' = <<>>
    /\ UNCHANGED <<cmpvars, maskvars, parsevars>>

EncodeInet ==
    \E l \in Lits, size \in BufferSizes, pad \in PadBytes :
        Encoded("encode_inet", l, encode_inet(FreshBuffer, size, LitText(l), Untouched, pad))

EncodeCidr ==
    \E l \in Lits, size \in BufferSizes, pad \in PadBytes :
        Encoded("encode_cidr", l, encode_cidr(FreshBuffer, size, LitText(l), Untouched, pad))

\* an arithmetic function called on the current record
Applied(name, n, result) ==
    /\ HasRecord /\ Len(hist) < MaxOps
    /\ op' = name /\ arg' = n /\ inp' = Cur /\ out' = result
    /\ txt' = NoTxt /\ num' = Untouched /\ hist' = Append(hist, name)
    /\ UNCHANGED <<lit, enc, cmpvars, maskvars, parsevars>>

InetNetmask ==
    \E pad \in PadBytes :
        Applied("inet_netmask", 0, inet_netmask(Cur, Len(Cur), FreshBuffer, Untouched, pad))

InetHostmask ==
    \E pad \in PadBytes, ub \in ShiftOutcomes :
        Applied("inet_hostmask", 0,
                inet_hostmask(Cur, Len(Cur), FreshBuffer, Untouched, pad, ub))

InetBroadcast ==
    \E pad \in PadBytes, ub \in ShiftOutcomes :
        Applied("inet_broadcast", 0,
                inet_broadcast(Cur, Len(Cur), FreshBuffer, Untouched, pad, ub))

InetNetwork ==
    \E pad \in PadBytes :
        Applied("inet_network", 0, inet_network(Cur, Len(Cur), FreshBuffer, Untouched, pad))

InetSetMasklen ==
    \E pad \in PadBytes, n \in Masklens :
        Applied("inet_set_masklen", n,
                inet_set_masklen(Cur, Len(Cur), n, FreshBuffer, Untouched, pad))

CidrSetMasklen ==
    \E pad \in PadBytes, n \in Masklens :
        Applied("cidr_set_masklen", n,
                cidr_set_masklen(Cur, Len(Cur), n, FreshBuffer, Untouched, pad))

\* a function that reads the current record: it is called on a record nothing has
\* been read from yet
Reading == HasRecord /\ txt = NoTxt /\ num = Untouched

Decoded(name, result) ==
    /\ Reading
    /\ op' = name /\ txt' = result
    /\ UNCHANGED <<lit, enc, arg, inp, out, num, hist, cmpvars, maskvars, parsevars>>

DecodeCidr ==
    Decoded("decode_cidr",
            decode_cidr(Cur, Len(Cur), UntouchedText, TextBufferSize, Untouched))

DecodeInet ==
    Decoded("decode_inet",
            decode_inet(Cur, Len(Cur), UntouchedText, TextBufferSize, Untouched))

Extracted(name, result) ==
    /\ Reading
    /\ op' = name /\ num' = result
    /\ UNCHANGED <<lit, enc, arg, inp, out, txt, hist, cmpvars, maskvars, parsevars>>

InetFamily == Extracted("inet_family", inet_family(Cur, Len(Cur)))

InetMasklen == Extracted("inet_masklen", inet_masklen(Cur, Len(Cur)))

Next ==
    \/ EncodeInet \/ EncodeCidr
    \/ InetNetmask \/ InetHostmask \/ InetBroadcast \/ InetNetwork
    \/ InetSetMasklen \/ CidrSetMasklen
    \/ DecodeCidr \/ DecodeInet
    \/ InetFamily \/ InetMasklen

Spec == Init /\ [][Next]_vars

(***************************************************************************)
(* The comparator's caller: three encoded records, compared pairwise       *)
(***************************************************************************)
CmpLits ==
    { Slash(V4(192, 168, 1, 5), 24),  V4(192, 168, 1, 5),
      Slash(V4(192, 168, 1, 0), 24),  Slash(V4(10, 0, 0, 1), 0),
      Slash(V6(<<8193, 3512>>, TRUE, <<1>>), 64),
      V6(<<8193, 3512>>, TRUE, <<1>>),
      Slash(V6(<<8193, 3512, 2>>, TRUE, <<>>), 48),
      Slash(V6(<<>>, TRUE, <<>>), 0) }

\* the record an encoder's result holds, with the literal it came from
Loaded(l, result) == [rec |-> SubSeq(result.buffer, 1, result.length), lit |-> l]

\* the caller encodes its next record
LoadRecord(result, l) ==
    /\ ~result.ret
    /\ \/ ra = NoRec /\ ra' = Loaded(l, result) /\ UNCHANGED <<rb, rc>>
       \/ ra # NoRec /\ rb = NoRec /\ rb' = Loaded(l, result) /\ UNCHANGED <<ra, rc>>
       \/ rb # NoRec /\ rc = NoRec /\ rc' = Loaded(l, result) /\ UNCHANGED <<ra, rb>>
    /\ UNCHANGED <<cmp, mainvars, maskvars, parsevars>>

LoadInet ==
    \E l \in CmpLits, pad \in PadBytes :
        LoadRecord(encode_inet(FreshBuffer, RecordBufferSize, LitText(l), Untouched, pad), l)

LoadCidr ==
    \E l \in CmpLits, pad \in PadBytes :
        LoadRecord(encode_cidr(FreshBuffer, RecordBufferSize, LitText(l), Untouched, pad), l)

Compared(f, ab, ba, bc, ac, aa) ==
    /\ rc # NoRec /\ cmp = <<>>
    /\ cmp' = [f |-> f, ab |-> ab, ba |-> ba, bc |-> bc, ac |-> ac, aa |-> aa]
    /\ UNCHANGED <<ra, rb, rc, mainvars, maskvars, parsevars>>

CompareCidr ==
    Compared("cmp_cidr",
             cmp_cidr(ra.rec, Len(ra.rec), rb.rec, Len(rb.rec)),
             cmp_cidr(rb.rec, Len(rb.rec), ra.rec, Len(ra.rec)),
             cmp_cidr(rb.rec, Len(rb.rec), rc.rec, Len(rc.rec)),
             cmp_cidr(ra.rec, Len(ra.rec), rc.rec, Len(rc.rec)),
             cmp_cidr(ra.rec, Len(ra.rec), ra.rec, Len(ra.rec)))

CompareInet ==
    Compared("cmp_inet",
             cmp_inet(ra.rec, Len(ra.rec), rb.rec, Len(rb.rec)),
             cmp_inet(rb.rec, Len(rb.rec), ra.rec, Len(ra.rec)),
             cmp_inet(rb.rec, Len(rb.rec), rc.rec, Len(rc.rec)),
             cmp_inet(ra.rec, Len(ra.rec), rc.rec, Len(rc.rec)),
             cmp_inet(ra.rec, Len(ra.rec), ra.rec, Len(ra.rec)))

CmpNext == LoadInet \/ LoadCidr \/ CompareCidr \/ CompareInet

SpecCmp == Init /\ [][CmpNext]_vars

(***************************************************************************)
(* The mask functions, called on every prefix length of each family        *)
(***************************************************************************)
Unset == <<>>

\* The shift expressions a mask function evaluates for a prefix length, each as the
\* width of the shifted operand and the shift count: 1u << (32 - prefix_len) and
\* 0xFF << (8 - remaining_bits), under the guards the function puts before them.
ShiftsOf(function, prefix_len) ==
    LET full_bytes     == prefix_len \div 8
        remaining_bits == prefix_len % 8
        shl32(by)      == {[f |-> function, bits |-> 32, by |-> by]}
        shl8(by)       == {[f |-> function, bits |-> 8, by |-> by]}
    IN  IF function = "validate_cidr_network"
        THEN IF prefix_len > IPV4_MAX_PREFIXLEN \/ prefix_len = 0 THEN {}
             ELSE shl32(IPV4_MAX_PREFIXLEN - prefix_len)
        ELSE IF function = "validate_cidr_network_ipv6"
        THEN IF prefix_len > IPV6_MAX_PREFIXLEN \/ prefix_len = 0 THEN {}
             ELSE IF remaining_bits > 0 THEN shl8(8 - remaining_bits)
             ELSE {}
        ELSE IF function = "prefix_to_netmask_ipv4"
        THEN IF prefix_len = 0 \/ prefix_len >= 32 THEN {}
             ELSE shl32(32 - prefix_len)
        ELSE IF function = "prefix_to_hostmask_ipv4"
        THEN IF prefix_len >= 32 THEN {}
             ELSE shl32(32 - prefix_len)
        ELSE IF full_bytes < 16 /\ remaining_bits > 0 THEN shl8(8 - remaining_bits)
        ELSE {}

\* the addresses the strict validation is called on
ValidatedAddresses(fam) ==
    IF fam = 4 THEN {Zero32, Ones32} ELSE {Zero128, [i \in 1..16 |-> 255]}

MaskInitAll ==
    /\ mfam \in {4, 6}
    /\ mp \in 0..(IF mfam = 4 THEN IPV4_MAX_PREFIXLEN ELSE IPV6_MAX_PREFIXLEN)
    /\ mnet = Unset /\ mhost = Unset /\ mval = Unset /\ shifts = {}

NetmaskCalled ==
    /\ mnet = Unset
    /\ mnet' = IF mfam = 4 THEN prefix_to_netmask_ipv4(mp) ELSE prefix_to_netmask_ipv6(mp)
    /\ shifts' = shifts \cup ShiftsOf(IF mfam = 4 THEN "prefix_to_netmask_ipv4"
                                      ELSE "prefix_to_netmask_ipv6", mp)
    /\ UNCHANGED <<mfam, mp, mhost, mval, mainvars, cmpvars, parsevars>>

HostmaskCalled ==
    /\ mhost = Unset
    /\ \E ub \in ShiftOutcomes :
          mhost' = IF mfam = 4 THEN prefix_to_hostmask_ipv4(mp, ub)
                   ELSE prefix_to_hostmask_ipv6(mp)
    /\ shifts' = shifts \cup ShiftsOf(IF mfam = 4 THEN "prefix_to_hostmask_ipv4"
                                      ELSE "prefix_to_hostmask_ipv6", mp)
    /\ UNCHANGED <<mfam, mp, mnet, mval, mainvars, cmpvars, parsevars>>

ValidateCalled ==
    /\ mval = Unset
    /\ \E address \in ValidatedAddresses(mfam) :
          mval' = [address |-> address,
                   ok |-> IF mfam = 4 THEN validate_cidr_network(address, mp)
                          ELSE validate_cidr_network_ipv6(address, mp)]
    /\ shifts' = shifts \cup ShiftsOf(IF mfam = 4 THEN "validate_cidr_network"
                                      ELSE "validate_cidr_network_ipv6", mp)
    /\ UNCHANGED <<mfam, mp, mnet, mhost, mainvars, cmpvars, parsevars>>

MaskNext == NetmaskCalled \/ HostmaskCalled \/ ValidateCalled

InitMask == MainInit /\ CmpInit /\ MaskInitAll /\ ParseInit

SpecMask == InitMask /\ [][MaskNext]_vars

(***************************************************************************)
(* Hardware address literals and their caller                              *)
(*                                                                         *)
(* A literal is its bytes and the notation README.md's "Supported Formats" *)
(* writes them in: colons or hyphens between the bytes, one colon in the   *)
(* middle (Cisco), or a dot after every second byte.                       *)
(***************************************************************************)
Mac(bytes, style) == [fam |-> "mac", bytes |-> bytes, style |-> style]

MacStyles == {"colon", "hyphen", "cisco", "dots"}

MacBytes ==
    { <<8, 0, 43, 1, 2, 3>>, <<255, 255, 255, 255, 255, 255>>,
      <<170, 187, 204, 0, 0, 0>>, <<0, 0, 0, 0, 0, 1>>,
      <<8, 0, 43, 1, 2, 3, 4, 5>>, <<170, 187, 204, 221, 238, 255, 0, 17>> }

MacLits == {Mac(b, st) : b \in MacBytes, st \in MacStyles}

RECURSIVE MacJoin(_, _, _)
MacJoin(bytes, i, style) ==
    IF i > Len(bytes) THEN <<>>
    ELSE LET sep == IF i = Len(bytes) THEN <<>>
                    ELSE IF style = "colon" THEN <<":">>
                    ELSE IF style = "hyphen" THEN <<"-">>
                    ELSE IF style = "cisco" /\ 2 * i = Len(bytes) THEN <<":">>
                    ELSE IF style = "dots" /\ i % 2 = 0 THEN <<".">>
                    ELSE <<>>
         IN  Fmt02x(bytes[i]) \o sep \o MacJoin(bytes, i + 1, style)

MacText(l) == MacJoin(l.bytes, 1, l.style)

\* sizes of the caller's buffers for the hardware address types
MacaddrBufferSize == 6
Macaddr8BufferSize == 8
MacTextBufferSize == 32

EncodeMacaddr ==
    \E l \in MacLits :
        Encoded("encode_macaddr", l,
                encode_macaddr(FreshBuffer, MacaddrBufferSize, MacText(l), Untouched))

EncodeMacaddr8 ==
    \E l \in MacLits :
        Encoded("encode_macaddr8", l,
                encode_macaddr8(FreshBuffer, Macaddr8BufferSize, MacText(l), Untouched))

MacaddrTrunc ==
    Applied("macaddr_trunc", 0, macaddr_trunc(Cur, Len(Cur), FreshBuffer, Untouched))

DecodeMacaddr ==
    Decoded("decode_macaddr",
            decode_macaddr(Cur, Len(Cur), UntouchedText, MacTextBufferSize, Untouched))

DecodeMacaddr8 ==
    Decoded("decode_macaddr8",
            decode_macaddr8(Cur, Len(Cur), UntouchedText, MacTextBufferSize, Untouched))

MacNext ==
    \/ EncodeMacaddr \/ EncodeMacaddr8
    \/ MacaddrTrunc
    \/ DecodeMacaddr \/ DecodeMacaddr8

SpecMac == Init /\ [][MacNext]_vars

(***************************************************************************)
(* The caller of the decode and format functions: a record of any of the   *)
(* four types, handed whole or cut short, and a text buffer of some size   *)
(***************************************************************************)
FmtLits ==
    { Slash(V4(192, 168, 1, 5), 24),      V4(192, 168, 1, 5),
      Slash(V4(255, 255, 255, 255), 32),  Slash(V4(192, 168, 100, 200), 24),
      Slash(V4(10, 0, 0, 0), 8),          Slash(V4(192, 168, 0, 0), 16),
      Slash(V4(100, 100, 100, 100), 25),  Slash(V4(10, 0, 0, 0), 0),
      Slash(V6(<<8193, 3512>>, TRUE, <<1>>), 64),
      V6(<<8193, 3512>>, TRUE, <<1>>),
      Slash(V6(<<8193, 3512, 2>>, TRUE, <<>>), 48),
      Slash(V6(<<>>, TRUE, <<>>), 0) }

\* buffer_size values below the size of every IP record
ShortSizes == {5, 7}
\* result_size / to_size values
TextSizes == {14, 18, 64}

FmtEncodeInet ==
    \E l \in FmtLits, pad \in PadBytes :
        Encoded("encode_inet", l,
                encode_inet(FreshBuffer, RecordBufferSize, LitText(l), Untouched, pad))

FmtEncodeCidr ==
    \E l \in FmtLits, pad \in PadBytes :
        Encoded("encode_cidr", l,
                encode_cidr(FreshBuffer, RecordBufferSize, LitText(l), Untouched, pad))

\* the buffer_size values the current record is handed with
HandedSizes == {Len(Cur)} \cup {n \in ShortSizes : n < Len(Cur)}

\* a decode or format function called on the first n bytes of the current record
Formatted(name, n, to_size, result) ==
    /\ Reading
    /\ op' = name /\ arg' = to_size /\ inp' = SubSeq(Cur, 1, n) /\ txt' = result
    /\ UNCHANGED <<lit, enc, out, num, hist, cmpvars, maskvars, parsevars>>

FmtDecodeCidr ==
    \E n \in HandedSizes, to_size \in TextSizes :
        Formatted("decode_cidr", n, to_size,
                  decode_cidr(Cur, n, UntouchedText, to_size, Untouched))

FmtDecodeInet ==
    \E n \in HandedSizes, to_size \in TextSizes :
        Formatted("decode_inet", n, to_size,
                  decode_inet(Cur, n, UntouchedText, to_size, Untouched))

FmtDecodeMacaddr ==
    \E n \in HandedSizes, to_size \in TextSizes :
        Formatted("decode_macaddr", n, to_size,
                  decode_macaddr(Cur, n, UntouchedText, to_size, Untouched))

FmtDecodeMacaddr8 ==
    \E n \in HandedSizes, to_size \in TextSizes :
        Formatted("decode_macaddr8", n, to_size,
                  decode_macaddr8(Cur, n, UntouchedText, to_size, Untouched))

InetHost ==
    \E n \in HandedSizes, result_size \in TextSizes :
        Formatted("inet_host", n, result_size,
                  inet_host(Cur, n, UntouchedText, result_size, Untouched))

InetText ==
    \E n \in HandedSizes, result_size \in TextSizes :
        Formatted("inet_text", n, result_size,
                  inet_text(Cur, n, UntouchedText, result_size, Untouched))

InetAbbrev ==
    \E n \in HandedSizes, result_size \in TextSizes :
        Formatted("inet_abbrev", n, result_size,
                  inet_abbrev(Cur, n, UntouchedText, result_size, Untouched))

CidrAbbrev ==
    \E n \in HandedSizes, result_size \in TextSizes :
        Formatted("cidr_abbrev", n, result_size,
                  cidr_abbrev(Cur, n, UntouchedText, result_size, Untouched))

FmtNext ==
    \/ FmtEncodeInet \/ FmtEncodeCidr \/ EncodeMacaddr \/ EncodeMacaddr8
    \/ FmtDecodeCidr \/ FmtDecodeInet \/ FmtDecodeMacaddr \/ FmtDecodeMacaddr8
    \/ InetHost \/ InetText \/ InetAbbrev \/ CidrAbbrev

SpecFmt == Init /\ [][FmtNext]_vars

(***************************************************************************)
(* The caller of the parsers: a text handed to parse_ipv4_address,         *)
(* parse_ipv6_address or parse_mac_address, or to an encoder; a hardware   *)
(* address record is decoded and the text encoded again                    *)
(***************************************************************************)
ParseTexts ==
    { <<"1", ".", "2", ".", "3", ".", "4">>,   \* 1.2.3.4
      <<"1", "9", "2", ".", "1", "6", "8", ".", "1", ".", "5">>,   \* 192.168.1.5
      <<"2", "5", "5", ".", "2", "5", "5", ".", "2", "5", "5", ".", "2", "5", "5">>,   \* 255.255.255.255
      <<"0", ".", "0", ".", "0", ".", "0">>,   \* 0.0.0.0
      <<"0", "1", ".", "2", ".", "3", ".", "4">>,   \* 01.2.3.4
      <<"1", ".", "2", ".", "3">>,   \* 1.2.3
      <<"1", ".", "2", ".", "3", ".", "4", ".", "5">>,   \* 1.2.3.4.5
      <<"1", ".", "2", ".", "3", ".", "4", "a", "b", "c">>,   \* 1.2.3.4abc
      <<" ", "1", ".", "2", ".", "3", ".", "4">>,   \*  1.2.3.4
      <<"+", "1", ".", "2", ".", "3", ".", "4">>,   \* +1.2.3.4
      <<"1", ".", "2", ".", "3", ".", "-", "4">>,   \* 1.2.3.-4
      <<"1", ".", "2", ".", "3", ".", "2", "5", "6">>,   \* 1.2.3.256
      <<"1", ".", ".", "2", ".", "3">>,   \* 1..2.3
      <<"1", ".", "2", ".", "3", ".">>,   \* 1.2.3.
      <<"a", ".", "b", ".", "c", ".", "d">>,   \* a.b.c.d
      <<>>,   \* (empty)
      <<"1", ":", "2", ":", "3", ":", "4", ":", "5", ":", "6", ":", "7", ":", "8">>,   \* 1:2:3:4:5:6:7:8
      <<"1", ":", "2", ":", "3", ":", "4", ":", "5", ":", "6", ":", "7">>,   \* 1:2:3:4:5:6:7
      <<"1", ":", "2", ":", "3", ":", "4", ":", "5", ":", "6", ":", "7", ":", "8", ":", "9">>,   \* 1:2:3:4:5:6:7:8:9
      <<"1", ":", "2", ":", "3", ":", "4", ":", "5", ":", "6", ":", "7", ":", "8", ":">>,   \* 1:2:3:4:5:6:7:8:
      <<"1", ":", "2", ":", "3", ":", "4", ":", "5", ":", "6", ":", "7", ":">>,   \* 1:2:3:4:5:6:7:
      <<":", "1", ":", "2", ":", "3", ":", "4", ":", "5", ":", "6", ":", "7">>,   \* :1:2:3:4:5:6:7
      <<"2", "0", "0", "1", ":", "0", "d", "b", "8", ":", "0", "0", "0", "0", ":", "0", "0", "0", "0", ":", "0", "0", "0", "0", ":", "0", "0", "0", "0", ":", "0", "0", "0", "0", ":", "0", "0", "0", "1">>,   \* 2001:0db8:0000:0000:0000:0000:0000:0001
      <<"1", ":", "2", ":", "3", ":", "4", ":", "5", ":", "6", ":", "7", ":", "F", "F", "F", "F">>,   \* 1:2:3:4:5:6:7:FFFF
      <<":", ":">>,   \* ::
      <<":", ":", "1">>,   \* ::1
      <<"2", "0", "0", "1", ":", "d", "b", "8", ":", ":", "1">>,   \* 2001:db8::1
      <<"f", "e", "8", "0", ":", ":", "1">>,   \* fe80::1
      <<"1", ":", ":">>,   \* 1::
      <<"1", ":", "2", ":", "3", ":", "4", ":", "5", ":", "6", ":", "7", ":", ":">>,   \* 1:2:3:4:5:6:7::
      <<"1", ":", "2", ":", "3", ":", "4", ":", ":", "5", ":", "6", ":", "7">>,   \* 1:2:3:4::5:6:7
      <<"1", ":", "2", ":", "3", ":", "4", ":", ":", "5", ":", "6", ":", "7", ":", "8">>,   \* 1:2:3:4::5:6:7:8
      <<":", ":", "2", ":", "3", ":", "4", ":", "5", ":", "6", ":", "7", ":", "8">>,   \* ::2:3:4:5:6:7:8
      <<"f", "f", "f", "f", ":", ":", "f", "f", "f", "f">>,   \* ffff::ffff
      <<"0", "8", "0", "0", ".", "2", "B", "0", "1", ".", "0", "2", "0", "3">>,   \* 0800.2B01.0203
      <<"1", "9", "2", ".", "1", "6", "8", ".", "1", ".", "5", "/", "+", "2", "4">>,   \* 192.168.1.5/+24
      <<"1", "9", "2", ".", "1", "6", "8", ".", "1", ".", "5", "/", "2", "4", "a", "b", "c">>,   \* 192.168.1.5/24abc
      <<"1", ":", "2", ":", "3", ":", "4", ":", "5", ":", "6", ":", "7", ":", "8", ":", ":">>,   \* 1:2:3:4:5:6:7:8::
      <<":", ":", "1", ":", "2", ":", "3", ":", "4", ":", "5", ":", "6", ":", "7", ":", "8">>,   \* ::1:2:3:4:5:6:7:8
      <<"1", ":", ":", "2", ":", ":", "3">>,   \* 1::2::3
      <<"0", "0", "0", "0", "1", ":", "2", ":", "3", ":", "4", ":", "5", ":", "6", ":", "7", ":", "8">>,   \* 00001:2:3:4:5:6:7:8
      <<":", ":", "0", "0", "0", "0", "1">>,   \* ::00001
      <<":", ":", "0", "x", "1">>,   \* ::0x1
      <<":", ":", "+", "1">>,   \* ::+1
      <<":", ":", " ", "1">>,   \* :: 1
      <<":", ":", "1", "0", "0", "0", "0">>,   \* ::10000
      <<":", ":", "g">>,   \* ::g
      <<"0", "8", ":", "0", "0", ":", "2", "b", ":", "0", "1", ":", "0", "2", ":", "0", "3">>,   \* 08:00:2b:01:02:03
      <<"0", "8", "-", "0", "0", "-", "2", "b", "-", "0", "1", "-", "0", "2", "-", "0", "3">>,   \* 08-00-2b-01-02-03
      <<"0", "8", "0", "0", "2", "b", ":", "0", "1", "0", "2", "0", "3">>,   \* 08002b:010203
      <<"0", "8", "0", "0", ".", "2", "b", "0", "1", ".", "0", "2", "0", "3">>,   \* 0800.2b01.0203
      <<"0", "8", "0", "0", "2", "b", "0", "1", "0", "2", "0", "3">>,   \* 08002b010203
      <<"0", "8", ":", "0", "0", ":", "2", "B", ":", "0", "1", ":", "0", "2", ":", "0", "3">>,   \* 08:00:2B:01:02:03
      <<"0", ":", "8", ":", "0", ":", "0", ":", "2", ":", "b", ":", "0", ":", "1", ":", "0", ":", "2", ":", "0", ":", "3">>,   \* 0:8:0:0:2:b:0:1:0:2:0:3
      <<"0", "8", ":", "0", "0", ":", "2", "b", ":", "0", "1", ":", "0", "2">>,   \* 08:00:2b:01:02
      <<"0", "8", ":", "0", "0", ":", "2", "b", ":", "0", "1", ":", "0", "2", ":", "0", "3", ":", "0", "4">>,   \* 08:00:2b:01:02:03:04
      <<"0", "8", ":", "0", "0", ":", "2", "b", ":", "0", "1", ":", "0", "2", ":", "0", "3", ":", "0", "4", ":", "0", "5">>,   \* 08:00:2b:01:02:03:04:05
      <<"0", "8", ":", "0", "0", ":", "2", "b", ":", "0", "1", ":", "0", "2", ":", "0", "g">>,   \* 08:00:2b:01:02:0g
      <<"0", "8", " ", "0", "0", " ", "2", "b", " ", "0", "1", " ", "0", "2", " ", "0", "3">>,   \* 08 00 2b 01 02 03
      <<"1", "9", "2", ".", "1", "6", "8", ".", "1", ".", "0", "/", "2", "4">>,   \* 192.168.1.0/24
      <<"1", "9", "2", ".", "1", "6", "8", ".", "1", ".", "5", "/", "2", "4">>,   \* 192.168.1.5/24
      <<"1", "9", "2", ".", "1", "6", "8", ".", "1", ".", "5", "/", "3", "2">>,   \* 192.168.1.5/32
      <<"1", "9", "2", ".", "1", "6", "8", ".", "1", ".", "5", "/", "0">>,   \* 192.168.1.5/0
      <<"1", "9", "2", ".", "1", "6", "8", ".", "1", ".", "5", "/", "-", "1">>,   \* 192.168.1.5/-1
      <<"1", "9", "2", ".", "1", "6", "8", ".", "1", ".", "5", "/", "3", "3">>,   \* 192.168.1.5/33
      <<"1", "9", "2", ".", "1", "6", "8", ".", "1", ".", "5", "/">>,   \* 192.168.1.5/
      <<"1", "9", "2", ".", "1", "6", "8", ".", "1", ".", "5", "/", "a", "b", "c">>,   \* 192.168.1.5/abc
      <<"1", "0", ".", "0", ".", "0", ".", "0", "/", "8">>,   \* 10.0.0.0/8
      <<"2", "0", "0", "1", ":", "d", "b", "8", ":", ":">>,   \* 2001:db8::
      <<"2", "0", "0", "1", ":", "d", "b", "8", ":", ":", "/", "3", "2">>,   \* 2001:db8::/32
      <<"2", "0", "0", "1", ":", "d", "b", "8", ":", ":", "1", "/", "1", "2", "8">>,   \* 2001:db8::1/128
      <<"2", "0", "0", "1", ":", "d", "b", "8", ":", ":", "1", "/", "-", "1">>,   \* 2001:db8::1/-1
      <<"2", "0", "0", "1", ":", "d", "b", "8", ":", ":", "1", "/", "1", "2", "9">> }   \* 2001:db8::1/129

InitParse == MainInit /\ CmpInit /\ MaskInit /\ str \in ParseTexts /\ parsed = NoParse

\* a parser called on the text; w is the number of address bytes it is to fill
Parsed(name, w, result) ==
    /\ op = "init" /\ parsed = NoParse
    /\ parsed' = [f |-> name, w |-> w, ok |-> result.ok, address |-> result.address]
    /\ UNCHANGED <<str, mainvars, cmpvars, maskvars>>

ParseIPv4Address == Parsed("parse_ipv4_address", 4, parse_ipv4_address(str))

ParseIPv6Address == Parsed("parse_ipv6_address", 16, parse_ipv6_address(str))

ParseMacAddress ==
    \E expected_bytes \in {sizeof_MacAddr, sizeof_MacAddr8} :
        Parsed("parse_mac_address", expected_bytes, parse_mac_address(str, expected_bytes))

\* an encoder called on the text: from is the text of the state, str
TextEncoded(name, from, result) ==
    /\ op = "init" /\ parsed = NoParse /\ str = from
    /\ enc' = name /\ op' = name /\ out' = result
    /\ UNCHANGED <<lit, arg, inp, txt, num, hist, parsevars, cmpvars, maskvars>>

TextEncodeInet ==
    \E from \in ParseTexts, pad \in PadBytes :
        TextEncoded("encode_inet", from,
                    encode_inet(FreshBuffer, RecordBufferSize, from, Untouched, pad))

TextEncodeCidr ==
    \E from \in ParseTexts, pad \in PadBytes :
        TextEncoded("encode_cidr", from,
                    encode_cidr(FreshBuffer, RecordBufferSize, from, Untouched, pad))

TextEncodeMacaddr ==
    \E from \in ParseTexts :
        TextEncoded("encode_macaddr", from,
                    encode_macaddr(FreshBuffer, MacaddrBufferSize, from, Untouched))

TextEncodeMacaddr8 ==
    \E from \in ParseTexts :
        TextEncoded("encode_macaddr8", from,
                    encode_macaddr8(FreshBuffer, Macaddr8BufferSize, from, Untouched))

TextDecodeMacaddr == enc = "encode_macaddr" /\ DecodeMacaddr

TextDecodeMacaddr8 == enc = "encode_macaddr8" /\ DecodeMacaddr8

\* the decoded text is encoded again
ReEncodeMacaddr ==
    /\ op = "decode_macaddr" /\ ~txt.ret
    /\ Applied("encode_macaddr", 0,
               encode_macaddr(FreshBuffer, MacaddrBufferSize, txt.to, Untouched))

ReEncodeMacaddr8 ==
    /\ op = "decode_macaddr8" /\ ~txt.ret
    /\ Applied("encode_macaddr8", 0,
               encode_macaddr8(FreshBuffer, Macaddr8BufferSize, txt.to, Untouched))

ParseNext ==
    \/ ParseIPv4Address \/ ParseIPv6Address \/ ParseMacAddress
    \/ TextEncodeInet \/ TextEncodeCidr \/ TextEncodeMacaddr \/ TextEncodeMacaddr8
    \/ TextDecodeMacaddr \/ TextDecodeMacaddr8
    \/ ReEncodeMacaddr \/ ReEncodeMacaddr8

SpecParse == InitParse /\ [][ParseNext]_vars

(***************************************************************************)
(* What the specification says of a literal and of a record                *)
(***************************************************************************)
\* the canonical text of a literal's address: a dotted quad, or eight groups of
\* four lowercase hexadecimal digits
CanonicalAddress(l) ==
    LET a == LitAddress(l)
    IN  IF l.fam = 4
        THEN FmtU(a[1]) \o <<".">> \o FmtU(a[2]) \o <<".">> \o FmtU(a[3]) \o <<".">>
             \o FmtU(a[4])
        ELSE LET group(g) == Fmt02x(a[2 * g - 1]) \o Fmt02x(a[2 * g])
             IN  group(1) \o <<":">> \o group(2) \o <<":">> \o group(3) \o <<":">>
                 \o group(4) \o <<":">> \o group(5) \o <<":">> \o group(6) \o <<":">>
                 \o group(7) \o <<":">> \o group(8)

CanonicalCidr(l) == CanonicalAddress(l) \o <<"/">> \o FmtD(l.pfx)

CanonicalInet(l) == IF l.pfx = LitWidth(l) THEN CanonicalAddress(l) ELSE CanonicalCidr(l)

\* the first p bits of an address given most significant byte first
FirstBits(address, p) ==
    [i \in 1..Len(address) |->
        LET kept == IF p >= 8 * i THEN 8 ELSE IF p <= 8 * (i - 1) THEN 0 ELSE p - 8 * (i - 1)
        IN  (address[i] \div (2 ^ (8 - kept))) * (2 ^ (8 - kept))]

\* a record's fields, its family being told by its length
RecFamily(r) == IF Len(r) = sizeof_IPv6Network THEN 6 ELSE 4
RecWidth(r) == IF RecFamily(r) = 6 THEN IPV6_MAX_PREFIXLEN ELSE IPV4_MAX_PREFIXLEN
RecAddress(r) == IF RecFamily(r) = 6 THEN SubSeq(r, 1, 16) ELSE <<r[4], r[3], r[2], r[1]>>
RecPrefix(r) == IF RecFamily(r) = 6 THEN r[17] ELSE r[5]
RecFlags(r) == IF RecFamily(r) = 6 THEN r[19] ELSE r[7]

\* the order of two literals: by address, most significant byte first, then by
\* prefix length
AddressBefore(a, b) ==
    \E i \in 1..Len(a) : a[i] < b[i] /\ \A j \in 1..(i - 1) : a[j] = b[j]

LitOrder(x, y) ==
    IF AddressBefore(LitAddress(x), LitAddress(y)) THEN 0 - 1
    ELSE IF AddressBefore(LitAddress(y), LitAddress(x)) THEN 1
    ELSE IF x.pfx < y.pfx THEN 0 - 1
    ELSE IF x.pfx > y.pfx THEN 1
    ELSE 0

\* an address with every bit after its first p bits set
HostBitsSet(address, p) ==
    [i \in 1..Len(address) |->
        LET kept == IF p >= 8 * i THEN 8 ELSE IF p <= 8 * (i - 1) THEN 0 ELSE p - 8 * (i - 1)
        IN  (address[i] \div (2 ^ (8 - kept))) * (2 ^ (8 - kept)) + (2 ^ (8 - kept)) - 1]

\* the netmask and the hostmask of prefix length p, as wide as the address
NetmaskOf(address, p) == FirstBits([i \in 1..Len(address) |-> 255], p)
HostmaskOf(address, p) == HostBitsSet([i \in 1..Len(address) |-> 0], p)

\* the record's prefix length lies in the range of its family
PrefixInRange(r) == 0 <= RecPrefix(r) /\ RecPrefix(r) <= RecWidth(r)

\* a record as the literal that denotes its address and prefix
RecLit(r) ==
    IF RecFamily(r) = 6
    THEN Slash(V6([g \in 1..8 |-> 256 * r[2 * g - 1] + r[2 * g]], FALSE, <<>>), RecPrefix(r))
    ELSE Slash(V4(r[4], r[3], r[2], r[1]), RecPrefix(r))

\* a record of 8 bytes tagged IPv4 or of 19 bytes tagged IPv6
TaggedRecord(r) ==
    \/ Len(r) = sizeof_IPv4Network /\ r[6] = AF_INET_VAL
    \/ Len(r) = sizeof_IPv6Network /\ r[18] = AF_INET6_VAL

WellFormed(r) == TaggedRecord(r) /\ PrefixInRange(r)

\* the first max(1, ceil(p/8)) octets of an IPv4 address, then "/p"
AbbrevText(r) ==
    LET a == RecAddress(r)
        p == RecPrefix(r)
        k == IF p = 0 THEN 1 ELSE (p + 7) \div 8
        RECURSIVE Dotted(_)
        Dotted(i) == IF i = k THEN FmtU(a[i]) ELSE FmtU(a[i]) \o <<".">> \o Dotted(i + 1)
    IN  Dotted(1) \o <<"/">> \o FmtD(p)

\* a hardware address as lowercase hexadecimal bytes joined by colons
MacCanonical(bytes) == MacJoin(bytes, 1, "colon")

FormatOps ==
    {"decode_cidr", "decode_inet", "decode_macaddr", "decode_macaddr8",
     "inet_host", "inet_text", "inet_abbrev", "cidr_abbrev"}

\* the record is one the function accepts
Recognized(name, r) ==
    IF name = "decode_macaddr" THEN Len(r) >= sizeof_MacAddr
    ELSE IF name = "decode_macaddr8" THEN Len(r) >= sizeof_MacAddr8
    ELSE TaggedRecord(r)

\* the complete text of the function's result
ExpectedText(name, r) ==
    IF name = "decode_macaddr" THEN MacCanonical(SubSeq(r, 1, sizeof_MacAddr))
    ELSE IF name = "decode_macaddr8" THEN MacCanonical(SubSeq(r, 1, sizeof_MacAddr8))
    ELSE IF name = "inet_host" THEN CanonicalAddress(RecLit(r))
    ELSE IF name \in {"decode_inet", "inet_abbrev"} THEN CanonicalInet(RecLit(r))
    ELSE IF name = "cidr_abbrev" /\ RecFamily(r) = 4 THEN AbbrevText(r)
    ELSE CanonicalCidr(RecLit(r))

ArithmeticOps ==
    {"inet_netmask", "inet_hostmask", "inet_broadcast", "inet_network",
     "inet_set_masklen", "cidr_set_masklen"}

\* the fields of a text between the occurrences of the character c
RECURSIVE SplitOn(_, _)
SplitOn(s, c) ==
    LET k == SpanNot(s, 1, c)
    IN  IF k = Len(s) THEN <<s>>
        ELSE <<SubSeq(s, 1, k)>> \o SplitOn(SubSeq(s, k + 2, Len(s)), c)

AllIn(g, S) == \A i \in 1..Len(g) : g[i] \in S

DecValue(g) == Accum(g, 1, Len(g), 10, 0)
HexValue(g) == Accum(g, 1, Len(g), 16, 0)

\* a decimal group within 0..255
IsDecGroup(g) == Len(g) >= 1 /\ AllIn(g, DecSet) /\ DecValue(g) <= 255

\* exactly four dot-separated decimal groups and nothing else
IsDottedQuad(s) ==
    LET f == SplitOn(s, ".") IN Len(f) = 4 /\ \A i \in 1..4 : IsDecGroup(f[i])

\* the part of an encoder's input before its "/"
AddressPart(s) == SubSeq(s, 1, SpanNot(s, 1, "/"))

\* a hexadecimal group of one to four digits
IsHexGroup(g) == Len(g) \in 1..4 /\ AllIn(g, HexSet)

\* the positions at which a text has "::"
DoubleColonAt(s) == {p \in 1..(Len(s) - 1) : s[p] = ":" /\ s[p + 1] = ":"}
FirstDoubleColon(s) == CHOOSE p \in DoubleColonAt(s) : \A q \in DoubleColonAt(s) : p <= q

\* the text before and after its first "::"
LeftOf(s) == SubSeq(s, 1, FirstDoubleColon(s) - 1)
RightOf(s) == SubSeq(s, FirstDoubleColon(s) + 2, Len(s))

\* the hexadecimal digits of a text, in order
HexDigitsOf(s) == SelectSeq(s, LAMBDA c : c \in HexSet)

\* the text has a "/", and the part after its first "/"
HasSlash(s) == \E i \in 1..Len(s) : s[i] = "/"
PrefixPart(s) == SubSeq(s, SpanNot(s, 1, "/") + 2, Len(s))

\* the text supplies a prefix: after its "/" comes an integer, with or without a
\* minus sign
SuppliesPrefix(s) ==
    /\ HasSlash(s)
    /\ LET t == PrefixPart(s)
           d == IF t # <<>> /\ t[1] = "-" THEN Tail(t) ELSE t
       IN  Len(d) >= 1 /\ AllIn(d, DecSet)

\* the colon-separated groups of a text, none for the empty text
Groups(t) == IF t = <<>> THEN <<>> ELSE SplitOn(t, ":")
ValidGroups(gs) == \A i \in 1..Len(gs) : IsHexGroup(gs[i])
GroupValues(gs) == [i \in 1..Len(gs) |-> HexValue(gs[i])]

(***************************************************************************)
(* The claims                                                              *)
(***************************************************************************)

\* C1: decoding the record an encoder produced from an accepted literal, with the
\* decoder of the same type, succeeds and yields the literal's canonical text: the
\* dotted quad or the eight lowercase four-digit groups, then "/prefix", which
\* decode_inet omits only when the prefix is the full width.
C1_RoundTrip ==
    /\ (op = "decode_cidr" /\ enc = "encode_cidr" /\ hist = <<>>)
          => (~txt.ret /\ txt.to = CanonicalCidr(lit) /\ txt.to_length = Len(txt.to))
    /\ (op = "decode_inet" /\ enc = "encode_inet" /\ hist = <<>>)
          => (~txt.ret /\ txt.to = CanonicalInet(lit) /\ txt.to_length = Len(txt.to))

\* C2: a record encoded from an IPv6 literal is 19 bytes long and inet_family and
\* the arithmetic functions treat it as IPv6 whatever its address bytes are; a
\* record encoded from an IPv4 literal is treated as IPv4.
C2_FamilyNeverConfused ==
    /\ (op = "inet_family" /\ hist = <<>>) => num = lit.fam
    /\ (op \in ArithmeticOps /\ Len(hist) = 1 /\ ~out.ret) => RecFamily(Cur) = lit.fam

\* C3: encode_cidr fails whenever the literal sets an address bit beyond its first
\* p bits, for every prefix length p, 0 included.
C3_StrictInvariant ==
    (op = "encode_cidr" /\ FirstBits(LitAddress(lit), lit.pfx) # LitAddress(lit)) => out.ret

\* C4: every record reached by a successful encode followed by successful
\* arithmetic calls stores a prefix length within 0..32 when it is an IPv4 record
\* and within 0..128 when it is an IPv6 record.
C4_PrefixRange ==
    HasRecord => (0 <= RecPrefix(Cur) /\ RecPrefix(Cur) <= RecWidth(Cur))

\* C5: on encoded records of one family cmp_cidr and cmp_inet give a total order
\* with results in {-1, 0, 1}: cmp(a,a) = 0, cmp(a,b) = -cmp(b,a), cmp(a,b) <= 0
\* and cmp(b,c) <= 0 imply cmp(a,c) <= 0; the order is that of the addresses, most
\* significant byte first, then of the prefix lengths, the smaller first.
C5_TotalOrder ==
    cmp # <<>> =>
        /\ {cmp.ab, cmp.ba, cmp.bc, cmp.ac, cmp.aa} \subseteq {0 - 1, 0, 1}
        /\ cmp.aa = 0
        /\ ra.lit.fam = rb.lit.fam =>
              (cmp.ab = 0 - cmp.ba /\ cmp.ab = LitOrder(ra.lit, rb.lit))
        /\ rb.lit.fam = rc.lit.fam => cmp.bc = LitOrder(rb.lit, rc.lit)
        /\ (ra.lit.fam = rb.lit.fam /\ rb.lit.fam = rc.lit.fam
               /\ cmp.ab <= 0 /\ cmp.bc <= 0) => cmp.ac <= 0

\* three records of one family in strictly increasing order, the first two of the
\* same address and told apart by their prefix lengths
C5_Witness ==
    /\ cmp # <<>>
    /\ ra.lit.fam = rb.lit.fam /\ rb.lit.fam = rc.lit.fam
    /\ LitAddress(ra.lit) = LitAddress(rb.lit) /\ ra.lit.pfx < rb.lit.pfx
    /\ LitAddress(rb.lit) # LitAddress(rc.lit)
    /\ cmp.ab = 0 - 1 /\ cmp.bc = 0 - 1 /\ cmp.ac = 0 - 1

\* C6: an encoded IPv4 record compares -1 with every encoded IPv6 record, and the
\* IPv6 record compares 1 with it, whatever their addresses and prefix lengths.
C6_IPv4BeforeIPv6 ==
    (cmp # <<>> /\ ra.lit.fam = 4 /\ rb.lit.fam = 6) => (cmp.ab = 0 - 1 /\ cmp.ba = 1)

\* an IPv4 record of a high address and prefix compared with the IPv6 record ::/0
C6_Witness ==
    /\ cmp # <<>> /\ cmp.f = "cmp_cidr"
    /\ ra.lit.fam = 4 /\ LitAddress(ra.lit)[1] = 192 /\ ra.lit.pfx = 32
    /\ rb.lit.fam = 6 /\ LitAddress(rb.lit)[1] = 0 /\ rb.lit.pfx = 0
    /\ cmp.ab = 0 - 1 /\ cmp.ba = 1

\* C7: for every prefix length of either family the netmask and the hostmask OR to
\* all ones and AND to zero; prefix 0 gives the zero netmask and the all-ones
\* hostmask, the full width gives the reverse.
C7_MaskComplement ==
    (mnet # Unset /\ mhost # Unset) =>
        /\ \A i \in 1..Len(mnet) :
              Or8(mnet[i], mhost[i]) = 255 /\ And8(mnet[i], mhost[i]) = 0
        /\ mp = 0 => \A i \in 1..Len(mnet) : mnet[i] = 0 /\ mhost[i] = 255
        /\ mp = (IF mfam = 4 THEN IPV4_MAX_PREFIXLEN ELSE IPV6_MAX_PREFIXLEN)
              => \A i \in 1..Len(mnet) : mnet[i] = 255 /\ mhost[i] = 0

\* C8: inet_network applied to the result of inet_network on an encoded record
\* succeeds and returns the same bytes.
C8_NetworkIdempotent ==
    (op = "inet_network" /\ hist = <<"inet_network", "inet_network">>)
        => (~out.ret /\ Cur = inp)

\* C9: inet_network returns a record of its input's family, with the input address
\* ANDed with the netmask of the input prefix, the input prefix, and the CIDR tag.
C9_NetworkOf ==
    (op = "inet_network" /\ hist # <<>>) =>
        /\ ~out.ret
        /\ RecFamily(Cur) = RecFamily(inp)
        /\ RecAddress(Cur) = FirstBits(RecAddress(inp), RecPrefix(inp))
        /\ RecPrefix(Cur) = RecPrefix(inp)
        /\ RecFlags(Cur) = ADDR_FLAG_CIDR

\* C10: for n within 0..width of the record's family inet_set_masklen returns the
\* input address with prefix n and the INET tag, and cidr_set_masklen the input
\* address ANDed with netmask(n) with prefix n and the CIDR tag; for any other n
\* both fail and leave the result buffer and the result length as they were.
C10_PrefixRewrite ==
    /\ (op = "inet_set_masklen" /\ 0 <= arg /\ arg <= RecWidth(inp)) =>
          /\ ~out.ret
          /\ RecFamily(Cur) = RecFamily(inp)
          /\ RecAddress(Cur) = RecAddress(inp)
          /\ RecPrefix(Cur) = arg
          /\ RecFlags(Cur) = ADDR_FLAG_INET
    /\ (op = "cidr_set_masklen" /\ 0 <= arg /\ arg <= RecWidth(inp)) =>
          /\ ~out.ret
          /\ RecFamily(Cur) = RecFamily(inp)
          /\ RecAddress(Cur) = FirstBits(RecAddress(inp), arg)
          /\ RecPrefix(Cur) = arg
          /\ RecFlags(Cur) = ADDR_FLAG_CIDR
    /\ (op \in {"inet_set_masklen", "cidr_set_masklen"}
           /\ (arg < 0 \/ arg > RecWidth(inp))) => out = NoOut

\* C13: macaddr_trunc on a 6-byte hardware record returns a 6-byte record with the
\* input's first three bytes and three zero bytes (08:00:2b:01:02:03 formats as
\* 08:00:2b:00:00:00 afterwards); applied to its own result it returns that result.
C13_MacaddrTrunc ==
    /\ (op = "macaddr_trunc" /\ Len(inp) = sizeof_MacAddr) =>
          /\ ~out.ret /\ out.length = 6
          /\ SubSeq(Cur, 1, 3) = SubSeq(inp, 1, 3)
          /\ SubSeq(Cur, 4, 6) = <<0, 0, 0>>
    /\ (op = "macaddr_trunc" /\ Len(inp) = sizeof_MacAddr /\ Len(hist) >= 2) => Cur = inp
    /\ (op = "decode_macaddr" /\ hist # <<>> /\ enc = "encode_macaddr"
           /\ lit.bytes = <<8, 0, 43, 1, 2, 3>>) =>
          (~txt.ret /\ txt.to = <<"0", "8", ":", "0", "0", ":", "2", "b", ":",
                                  "0", "0", ":", "0", "0", ":", "0", "0">>)

\* 08:00:2b:01:02:03 truncated twice
C13_Witness ==
    /\ op = "macaddr_trunc" /\ hist = <<"macaddr_trunc", "macaddr_trunc">>
    /\ enc = "encode_macaddr" /\ lit.bytes = <<8, 0, 43, 1, 2, 3>>
    /\ ~out.ret /\ Cur = <<8, 0, 43, 0, 0, 0>> /\ inp = Cur

\* C14: macaddr_trunc handed an 8-byte hardware record reports failure and writes
\* no result record.
C14_MacaddrTruncRefuses8 ==
    (op = "macaddr_trunc" /\ Len(inp) = sizeof_MacAddr8) => out = NoOut

\* C11: inet_broadcast returns, for an input whose prefix p lies in 0..width, a
\* record of the input's family with the input address ORed with hostmask(p), the
\* input prefix and the INET tag.
C11_BroadcastOf ==
    (op = "inet_broadcast" /\ PrefixInRange(inp)) =>
        /\ ~out.ret
        /\ RecFamily(Cur) = RecFamily(inp)
        /\ RecAddress(Cur) = HostBitsSet(RecAddress(inp), RecPrefix(inp))
        /\ RecPrefix(Cur) = RecPrefix(inp)
        /\ RecFlags(Cur) = ADDR_FLAG_INET

\* C12: inet_netmask and inet_hostmask return a record of the input's family whose
\* address is netmask(p), respectively hostmask(p), for the input prefix p, whose
\* prefix is the full width and whose tag is INET; the netmask of 2001:db8::1/64
\* displays as ffff:ffff:ffff:ffff:0000:0000:0000:0000.
C12_MaskOf ==
    /\ (op = "inet_netmask" /\ PrefixInRange(inp)) =>
          /\ ~out.ret
          /\ RecFamily(Cur) = RecFamily(inp)
          /\ RecAddress(Cur) = NetmaskOf(RecAddress(inp), RecPrefix(inp))
          /\ RecPrefix(Cur) = RecWidth(inp)
          /\ RecFlags(Cur) = ADDR_FLAG_INET
    /\ (op = "inet_hostmask" /\ PrefixInRange(inp)) =>
          /\ ~out.ret
          /\ RecFamily(Cur) = RecFamily(inp)
          /\ RecAddress(Cur) = HostmaskOf(RecAddress(inp), RecPrefix(inp))
          /\ RecPrefix(Cur) = RecWidth(inp)
          /\ RecFlags(Cur) = ADDR_FLAG_INET
    /\ (op = "decode_inet" /\ hist = <<"inet_netmask">>
           /\ lit = Slash(V6(<<8193, 3512>>, TRUE, <<1>>), 64)) =>
          (~txt.ret /\ txt.to = CanonicalAddress(V6(<<65535, 65535, 65535, 65535>>,
                                                    TRUE, <<>>)))

\* C15: encode_inet stores prefix 32 (IPv4) or 128 (IPv6) for a literal without
\* "/", and decode_inet leaves out the "/prefix" suffix exactly when the stored
\* prefix is the full width of the record's family.
C15_DefaultPrefix ==
    /\ (op = "encode_inet" /\ ~lit.has /\ ~out.ret) =>
          (RecFamily(Cur) = lit.fam /\ RecPrefix(Cur) = LitWidth(lit))
    /\ (op = "decode_inet" /\ ~txt.ret) =>
          ((\A i \in 1..Len(txt.to) : txt.to[i] # "/") <=> RecPrefix(Cur) = RecWidth(Cur))
    /\ (op = "decode_inet" /\ hist = <<>> /\ enc = "encode_inet" /\ lit.fam = 4
           /\ lit.addr = <<192, 168, 1, 5>>) =>
          (~txt.ret /\ txt.to = LitText(lit))

\* C16: inet_text returns, for a well-formed record and a 64-byte result buffer,
\* the complete text "address/prefix", the prefix always present and no character
\* dropped.
C16_InetTextComplete ==
    (op = "inet_text" /\ arg = 64 /\ WellFormed(inp)) =>
        (~txt.ret /\ txt.to = CanonicalCidr(RecLit(inp)) /\ txt.to_length = Len(txt.to))

\* C17: cidr_abbrev gives, for an IPv4 record with prefix p, the first
\* max(1, ceil(p/8)) octets joined by dots, then "/" and p; for an IPv6 record the
\* text inet_text gives.
C17_CidrAbbrev ==
    (op = "cidr_abbrev" /\ arg = 64 /\ WellFormed(inp)) =>
        /\ ~txt.ret
        /\ RecFamily(inp) = 4 => txt.to = AbbrevText(inp)
        /\ RecFamily(inp) = 6 =>
              txt.to = inet_text(inp, Len(inp), UntouchedText, 64, Untouched).to

\* C19: a decode or format function that fails leaves the text buffer and its
\* length as they were, and it fails whenever the record is undersized or carries
\* no recognized family tag, or the text buffer is smaller than the result text
\* and its terminator.
C19_FormatFailure ==
    op \in FormatOps =>
        /\ txt.ret => txt = NoTxt
        /\ (~Recognized(op, inp) \/ arg < Len(ExpectedText(op, inp)) + 1) => txt.ret

\* C18: every failing call of an encoder returns with the reported length set to 0
\* and with no byte of the destination buffer written.
C18_EncodeFailure ==
    (op \in {"encode_cidr", "encode_inet", "encode_macaddr", "encode_macaddr8"} /\ out.ret)
        => (out.length = 0 /\ out.buffer = FreshBuffer)

\* C20: encoding an IPv4 literal reports a record length of 7 bytes, encoding an
\* IPv6 literal one of 19 bytes.
C20_RecordLength ==
    (op \in {"encode_cidr", "encode_inet"} /\ ~out.ret)
        => out.length = (IF lit.fam = 4 THEN 7 ELSE 19)

\* C21: for an IPv4 INET value the text decode_inet gives for the result of
\* inet_netmask, inet_hostmask or inet_broadcast is the result's address followed
\* by "/32"; for 192.168.1.5/24 the three texts are 255.255.255.0/32, 0.0.0.255/32
\* and 192.168.1.255/32.
C21_MaskResultText ==
    /\ (op = "decode_inet" /\ enc = "encode_inet" /\ lit.fam = 4 /\ Len(hist) = 1
           /\ hist[1] \in {"inet_netmask", "inet_hostmask", "inet_broadcast"}) =>
          /\ ~txt.ret
          /\ txt.to = CanonicalAddress(RecLit(Cur)) \o <<"/", "3", "2">>
    /\ (op = "decode_inet" /\ enc = "encode_inet" /\ Len(hist) = 1
           /\ lit = Slash(V4(192, 168, 1, 5), 24)) =>
          /\ hist[1] = "inet_netmask" =>
                txt.to = LitText(Slash(V4(255, 255, 255, 0), 32))
          /\ hist[1] = "inet_hostmask" =>
                txt.to = LitText(Slash(V4(0, 0, 0, 255), 32))
          /\ hist[1] = "inet_broadcast" =>
                txt.to = LitText(Slash(V4(192, 168, 1, 255), 32))

\* C29: in every mask computation, for every prefix length within 0..width, a
\* shift of a 32-bit operand is by 0..31 positions and a shift of the byte
\* pattern by 0..7 positions; no call shifts a 32-bit value by 32.
C29_ShiftInRange ==
    \A s \in shifts :
        /\ s.bits = 32 => (0 <= s.by /\ s.by <= 31)
        /\ s.bits = 8 => (0 <= s.by /\ s.by <= 7)

\* C22: parse_ipv4_address accepts a text if and only if it is exactly four
\* dot-separated decimal groups, each within 0..255, and nothing else; a text
\* with a fifth group, trailing characters, a sign or leading white space is not
\* encoded as an IPv4 record by encode_inet or encode_cidr.
C22_IPv4Grammar ==
    /\ parsed.f = "parse_ipv4_address" => (parsed.ok <=> IsDottedQuad(str))
    /\ (op \in {"encode_inet", "encode_cidr"} /\ ~out.ret
           /\ out.length = sizeof_IPv4Network) => IsDottedQuad(AddressPart(str))

\* C23: for a text without "::" parse_ipv6_address succeeds if and only if the
\* text has exactly 8 colon-separated groups; fewer groups, a 9th group after the
\* 8th and a trailing ":" are rejected.
C23_EightGroups ==
    (parsed.f = "parse_ipv6_address" /\ DoubleColonAt(str) = {}) =>
        /\ parsed.ok => Len(Groups(str)) = 8
        /\ (Len(Groups(str)) = 8 /\ ValidGroups(Groups(str))) => parsed.ok

\* C24: for a text with L valid groups before its "::" and R valid groups after
\* it parse_ipv6_address succeeds if and only if L + R <= 7, and the address then
\* holds the left groups at positions 0..L-1, the right groups at positions
\* 8-R..7 and zero in between; a text with a second "::" is rejected.
C24_Compression ==
    (parsed.f = "parse_ipv6_address" /\ DoubleColonAt(str) # {}) =>
        LET l == Groups(LeftOf(str))
            r == Groups(RightOf(str))
        IN  /\ (ValidGroups(l) /\ ValidGroups(r)) =>
                  /\ parsed.ok <=> Len(l) + Len(r) <= 7
                  /\ parsed.ok =>
                        parsed.address = LitAddress(V6(GroupValues(l), TRUE, GroupValues(r)))
            /\ DoubleColonAt(RightOf(str)) # {} => ~parsed.ok

\* 1:2:3:4::5:6:7 parsed: four groups on the left, three on the right, one zero
\* group between them
C24_Witness ==
    /\ parsed.f = "parse_ipv6_address" /\ parsed.ok
    /\ Len(Groups(LeftOf(str))) = 4 /\ Len(Groups(RightOf(str))) = 3
    /\ parsed.address = <<0, 1, 0, 2, 0, 3, 0, 4, 0, 0, 0, 5, 0, 6, 0, 7>>

\* C25: parse_ipv6_address accepts a text only if every group of it is one to
\* four hexadecimal digits; a group of five or more digits, a "0x" prefix, a sign
\* or leading white space makes the parse fail.
C25_GroupGrammar ==
    (parsed.f = "parse_ipv6_address" /\ parsed.ok) =>
        IF DoubleColonAt(str) = {} THEN ValidGroups(Groups(str))
        ELSE ValidGroups(Groups(LeftOf(str))) /\ ValidGroups(Groups(RightOf(str)))

\* C26: parse_mac_address with width w of 6 or 8 succeeds if and only if the text
\* holds only hexadecimal digits and the separators ":", "-", "." and has exactly
\* 2w hexadecimal digits; byte i of the result is the value of digits 2i and 2i+1;
\* decoding the record gives the lowercase colon-separated text, and encoding that
\* text gives the same record.
C26_MacGrammar ==
    /\ parsed.f = "parse_mac_address" =>
          LET digits == HexDigitsOf(str) IN
          /\ parsed.ok <=> (AllIn(str, HexSet \cup {":", "-", "."})
                               /\ Len(digits) = 2 * parsed.w)
          /\ parsed.ok => \A i \in 1..parsed.w :
                             parsed.address[i] = HexValue(SubSeq(digits, 2 * i - 1, 2 * i))
    /\ op \in {"decode_macaddr", "decode_macaddr8"} =>
          (~txt.ret /\ txt.to = MacCanonical(Cur) /\ txt.to_length = Len(txt.to))
    /\ (op \in {"encode_macaddr", "encode_macaddr8"} /\ hist # <<>>) =>
          (~out.ret /\ Cur = inp)

\* 0800.2B01.0203 encoded, decoded to 08:00:2b:01:02:03 and that text encoded
\* again
C26_Witness ==
    /\ str = <<"0", "8", "0", "0", ".", "2", "B", "0", "1", ".", "0", "2", "0", "3">>
    /\ op = "encode_macaddr" /\ hist = <<"encode_macaddr">>
    /\ ~out.ret /\ Cur = <<8, 0, 43, 1, 2, 3>> /\ inp = Cur

\* C27: encode_cidr applied to a valid address literal without "/" succeeds with
\* the default prefix of encode_inet, 32 for IPv4 and 128 for IPv6, and produces
\* a record tagged CIDR.
C27_CidrWithoutSlash ==
    (op = "encode_cidr" /\ ~lit.has /\ out.length # Untouched) =>
        /\ ~out.ret
        /\ RecPrefix(Cur) = LitWidth(lit)
        /\ RecFlags(Cur) = ADDR_FLAG_CIDR

\* C28: when the text has a prefix after "/", encode_inet and encode_cidr succeed
\* only if that prefix is an integer within 0..32 for an IPv4 address, within
\* 0..128 for an IPv6 address, and the record stores that prefix: "/-1" and "/33"
\* fail and no record gets a defaulted prefix.
C28_SuppliedPrefix ==
    (op \in {"encode_inet", "encode_cidr"} /\ SuppliesPrefix(str) /\ ~out.ret) =>
        LET prefix == PrefixPart(str) IN
        /\ prefix[1] # "-"
        /\ DecValue(prefix) <= RecWidth(Cur)
        /\ RecPrefix(Cur) = DecValue(prefix)

\* C30: for every well-formed IPv4 or IPv6 record and a 64-byte text buffer
\* inet_abbrev succeeds with the text and the length decode_inet gives: the
\* address alone when the prefix is the full width, else the address and
\* "/prefix".
C30_AbbrevEquivalent ==
    (op = "inet_abbrev" /\ arg = 64 /\ WellFormed(inp)) =>
        /\ ~txt.ret
        /\ txt = decode_inet(inp, Len(inp), UntouchedText, 64, Untouched)
        /\ txt.to = CanonicalInet(RecLit(inp))

====
